---- MODULE Spec2Model ----
(***************************************************************************)
(* NourishLink: the donation / task lifecycle handlers of the Express      *)
(* router (server/routes, donation routes) over the Mongoose models        *)
(* Donation, Task and Metrics.                                             *)
(*                                                                         *)
(* Every handler is an async function: each `await` on a store call is a   *)
(* point where other requests may run.  A request is therefore modelled as *)
(* a sequence of atomic store operations; the synchronous code between two *)
(* awaits belongs to the step that follows it.  Spec interleaves up to     *)
(* MaxInFlight requests, SpecSeq runs one request at a time.               *)
(***************************************************************************)
EXTENDS Integers, Sequences, FiniteSets, TLC

\* Bounds of the model: the requests admitted in a behaviour of Spec and of
\* SpecSeq, the requests in flight at once, the donations posted.
MaxRequests == 4
MaxSeqRequests == 6
MaxInFlight == 2
MaxDonations == 1
MaxSeqDonations == 2
MaxPostRequests == 4   \* donations posted when only POST /post is exercised
MaxFaultRequests == 4  \* requests admitted when store calls may fail
MaxClientWrites == 5   \* writes to Firestore by the mobile client
MaxClientDonations == 2
MaxUnknownRequests == 5 \* requests admitted when the body may name an unknown volunteer
MaxTailRequests == 6   \* requests admitted when only the last ones may overlap
SerialRequests == 4    \* requests of that run handled one after the other
MaxVolunteers == 3     \* volunteers in the list getVolunteers ranks

----------------------------------------------------------------------------
\* Callers as resolved by the auth middleware (req.user.uid, req.user.role).
Users == {"A1", "D1", "V1", "V2"}

RoleOf(u) == CASE u = "A1" -> "Admin"
               [] u = "D1" -> "Donor"
               [] OTHER    -> "Volunteer"

\* volunteerId / newVolunteerId values a request body may carry ("" = missing).
VolunteerIds == {"", "V1", "V2"}

\* The uids registered with role Volunteer.
ExistingVolunteers == {u \in Users : RoleOf(u) = "Volunteer"}

\* Request bodies that may also name a uid no user has.
AnyVolunteerIds == {"", "V1", "X9"}

TaskType == {"collection", "distribution"}

\* const TaskStatus = [...]: the enum of TaskSchema.status.
TaskStatus == {"pending", "assigned", "enRoute", "completed", "cancelled",
               "failed"}

DonationStatus == {"pendingAssignment", "assignedForCollection", "collected",
                   "assignedForDistribution", "delivered"}

\* Statuses a request body of PUT /:taskId/status may carry ("" = missing).
StatusInputs == {"enRoute", "completed", "cancelled", "failed", "assigned", ""}

\* The statuses the status route accepts.
AllowedStatusUpdates == {"enRoute", "completed", "cancelled", "failed"}

\* Pickup points a donor may post (coordinates are [longitude, latitude]).
PickupPlaces == {[coordinates |-> <<10, 20>>, address |-> "pickupA"]}

\* The Organization collection (static reference data).
Organizations ==
    {[organizationId |-> "1", coordinates |-> <<30, 40>>, address |-> "centerA"],
     [organizationId |-> "2", coordinates |-> <<50, 60>>, address |-> "centerB"]}

\* locationId values of a request body: 0 is a missing (falsy) value.
LocationIds == {0, 1, 2, 9}

\* quantity strings of a posted donation ("" = missing).
Quantities == {"10 lbs", "2", ""}

\* issueNotes of a report ("" = missing).
IssueNotes == {"", "wrong address"}

Slots == 1..MaxInFlight

----------------------------------------------------------------------------
VARIABLES
    donations,   \* the Donation collection, in insertion order
    tasks,       \* the Task collection, in insertion order
    metrics,     \* the Metrics collection, in insertion order
    reqs,        \* the requests being handled: position and local variables
    oidCounter,  \* mongoose.Types.ObjectId() generator (increasing, unique)
    nreq,        \* requests admitted past their checks so far; the clock of new Date()
    firestore,   \* the mobile client's Firestore collection 'donations'
    screens,     \* the mobile client's open detail screens and the documents they hold
    ranking      \* the web client's getVolunteers call: its inputs and its result

vars == <<donations, tasks, metrics, reqs, oidCounter, nreq, firestore, screens,
          ranking>>

\* A request slot with no request in it.
IdleReq == [pc |-> "idle", op |-> "none", caller |-> "", id |-> 0, vol |-> "",
            status |-> "", notes |-> "", coordinates |-> <<>>, address |-> "",
            taskType |-> "", donationId |-> 0, found |-> FALSE,
            tasksAssigned |-> 0, tasksCompleted |-> 0,
            donationsCollected |-> 0, donationsDelivered |-> 0,
            totalDonationsPosted |-> 0, foodItemsCollected |-> 0, qty |-> 0]

InFlight == {s \in Slots : reqs[s].pc # "idle"}

\* A new request takes the lowest free slot.
CanStart(s) ==
    /\ reqs[s].pc = "idle"
    /\ \A t \in Slots : t < s => reqs[t].pc # "idle"

\* Requests arrive at any time, also while others are in flight.
Admit == nreq < MaxRequests

\* Requests arrive one at a time, each after the response to the previous one.
AdmitSeq == nreq < MaxSeqRequests /\ InFlight = {}

\* Requests to POST /post arrive at any time.
AdmitPost == nreq < MaxPostRequests

\* Requests arrive one at a time; the body may name any volunteer id.
AdmitUnknown == nreq < MaxUnknownRequests /\ InFlight = {}

\* The first SerialRequests requests arrive one at a time, the later ones at
\* any time.
AdmitTail == nreq < MaxTailRequests /\ (InFlight = {} \/ nreq > SerialRequests)

\* Requests arrive one at a time; store calls may fail.
AdmitFault == nreq < MaxFaultRequests /\ InFlight = {}

\* res.json(...): the success response ends the request.
Respond(s) == reqs' = [reqs EXCEPT ![s] = IdleReq]

----------------------------------------------------------------------------
\* Store queries.

\* Model.findOne(filter): of the positions of the matching documents, the
\* first; 0 when none matches.
FirstIndex(matching) ==
    IF matching = {} THEN 0
    ELSE CHOOSE i \in matching : \A j \in matching : i <= j

\* Donation.findOne({ donationId })
DonationIndex(donationId) ==
    FirstIndex({i \in 1..Len(donations) : donations[i].donationId = donationId})

\* Task.findById(id) / Task.findOne({ _id: id })
TaskIndexBy_id(id) ==
    FirstIndex({i \in 1..Len(tasks) : tasks[i]._id = id})

\* Task.findOne({ taskId })
TaskIndexByTaskId(id) ==
    FirstIndex({i \in 1..Len(tasks) : tasks[i].taskId = id})

\* getMetricsByUserId(userId): Metrics.findOne({ userId })
MetricsIndex(userId) ==
    FirstIndex({i \in 1..Len(metrics) : metrics[i].userId = userId})

\* MetricsSchema defaults of a new record.
MetricsDefaults(metricsId, userId, userType) ==
    [metricsId |-> metricsId, userId |-> userId, userType |-> userType,
     tasksCompleted |-> 0, tasksAssigned |-> 0, donationsCollected |-> 0,
     donationsDelivered |-> 0, totalDonationsPosted |-> 0,
     foodItemsCollected |-> 0]

\* The identifiers a client may put in a URL: every identifier of a stored
\* document and one that designates nothing.
DonationIdInputs == {donations[i].donationId : i \in 1..Len(donations)} \cup {0}
TaskIdInputs == {tasks[i]._id : i \in 1..Len(tasks)}
                  \cup {tasks[i].taskId : i \in 1..Len(tasks)} \cup {0}

----------------------------------------------------------------------------
\* Role gates.
\* Mutant: the role is not looked at.
isAdmin_Anyone(u) == TRUE

isAdmin(u) == RoleOf(u) = "Admin"
isVolunteer(u) == RoleOf(u) = "Volunteer"

----------------------------------------------------------------------------
\* POST /post

\* Number(quantity) || 0
QuantityNumber(quantity) ==
    CASE quantity = "2" -> 2
      [] OTHER          -> 0

\* The role check and the required-field validation of POST /post.
PostRejection(caller, quantity) ==
    IF RoleOf(caller) # "Donor" /\ RoleOf(caller) # "Admin" THEN 403
    ELSE IF quantity = "" THEN 400
    ELSE 0

\* new Donation({...})
NewDonation(docId, caller, quantity, place) ==
    [donationId |-> docId, donorId |-> caller, quantity |-> quantity,
     status |-> "pendingAssignment",
     pickupLocation |-> place.coordinates, pickupAddress |-> place.address,
     dropoffLocation |-> <<>>, dropoffAddress |-> "",
     collectedAt |-> 0, deliveredAt |-> 0,
     collectedByVolunteerId |-> "", distributionVolunteerId |-> ""]

\* The request is rejected before any store call.
PostRejected(s, caller, quantity) ==
    /\ CanStart(s)
    /\ PostRejection(caller, quantity) # 0
    /\ UNCHANGED vars

\* await newDonation.save()
PostSave(s, caller, quantity, place) ==
    /\ CanStart(s)
    /\ PostRejection(caller, quantity) = 0
    /\ nreq' = nreq + 1
    /\ oidCounter' = oidCounter + 1
    /\ donations' = Append(donations,
                           NewDonation(oidCounter + 1, caller, quantity, place))
    /\ reqs' = [reqs EXCEPT ![s] =
                  [IdleReq EXCEPT !.pc = "post_metrics_read", !.op = "post",
                                  !.caller = caller,
                                  !.qty = QuantityNumber(quantity)]]
    /\ UNCHANGED <<tasks, metrics, firestore, screens, ranking>>

\* await getMetricsByUserId(req.user.uid)
PostMetricsRead(s) ==
    /\ reqs[s].pc = "post_metrics_read"
    /\ LET i == MetricsIndex(reqs[s].caller) IN
         reqs' = [reqs EXCEPT ![s] =
           IF i = 0
           THEN [@ EXCEPT !.pc = "post_metrics_write", !.found = FALSE]
           ELSE [@ EXCEPT !.pc = "post_metrics_write", !.found = TRUE,
                   !.totalDonationsPosted = metrics[i].totalDonationsPosted,
                   !.foodItemsCollected = metrics[i].foodItemsCollected]]
    /\ UNCHANGED <<donations, tasks, metrics, oidCounter, nreq, firestore, screens, ranking>>

\* updateMetrics(userId, updateData): Metrics.findOneAndUpdate({ userId }, ...)
\* replaces the first matching record, which is the one getMetricsByUserId
\* returns, by its updated version; nothing when none matches.
UpdateMetricsStore(userId, updated) ==
    LET i == MetricsIndex(userId) IN
      IF i = 0 THEN metrics ELSE [metrics EXCEPT ![i] = updated]

\* The stored record updateMetrics(userId, ...) matches.
MetricsOf(userId) == metrics[MetricsIndex(userId)]

\* The donor's counters after a post, from the record read earlier.
PostMetricsUpdate(r, m) ==
    [m EXCEPT !.totalDonationsPosted = r.totalDonationsPosted + 1,
              !.foodItemsCollected = r.foodItemsCollected + r.qty]

\* await createMetrics({...}) or await updateMetrics(...); then res.status(201)
PostMetricsWrite(s) ==
    /\ reqs[s].pc = "post_metrics_write"
    /\ LET r == reqs[s]
       IN IF ~r.found
          THEN /\ oidCounter' = oidCounter + 1
               /\ metrics' = Append(metrics,
                    [MetricsDefaults(oidCounter + 1, r.caller, "Donor")
                       EXCEPT !.totalDonationsPosted = 1,
                              !.foodItemsCollected = r.qty])
          ELSE /\ metrics' = UpdateMetricsStore(r.caller,
                                 PostMetricsUpdate(r, MetricsOf(r.caller)))
               /\ UNCHANGED oidCounter
    /\ Respond(s)
    /\ UNCHANGED <<donations, tasks, nreq, firestore, screens, ranking>>

----------------------------------------------------------------------------
\* Task documents and the tasksAssigned bookkeeping shared by both
\* assignment routes.

\* Task.create({...}): TaskSchema defaults fill the fields the route omits.
NewTask(taskId, oid, donationId, volunteerId, taskType, coordinates, address, now) ==
    [_id |-> oid, taskId |-> taskId, donationId |-> donationId,
     volunteerId |-> volunteerId, taskType |-> taskType, status |-> "assigned",
     location |-> coordinates, address |-> address,
     assignedAt |-> now, startedAt |-> 0, completedAt |-> 0,
     issueReported |-> FALSE, issueNotes |-> ""]

\* const taskId = new ObjectId().toHexString(); await Task.create({...}):
\* the document's own _id is the next ObjectId.
CreateTask(s, taskType, nextPc) ==
    /\ oidCounter' = oidCounter + 2
    /\ tasks' = Append(tasks,
                  NewTask(oidCounter + 1, oidCounter + 2, reqs[s].id,
                          reqs[s].vol, taskType, reqs[s].coordinates,
                          reqs[s].address, nreq))
    /\ reqs' = [reqs EXCEPT ![s].pc = nextPc]
    /\ UNCHANGED <<donations, metrics, nreq, firestore, screens, ranking>>

\* await getMetricsByUserId(volunteerId)
VolunteerMetricsRead(s, nextPc) ==
    /\ LET i == MetricsIndex(reqs[s].vol) IN
         reqs' = [reqs EXCEPT ![s] =
           IF i = 0
           THEN [@ EXCEPT !.pc = nextPc, !.found = FALSE]
           ELSE [@ EXCEPT !.pc = nextPc, !.found = TRUE,
                   !.tasksAssigned = metrics[i].tasksAssigned,
                   !.tasksCompleted = metrics[i].tasksCompleted,
                   !.donationsCollected = metrics[i].donationsCollected,
                   !.donationsDelivered = metrics[i].donationsDelivered]]
    /\ UNCHANGED <<donations, tasks, metrics, oidCounter, nreq, firestore, screens, ranking>>

\* Mutant: the counter is set to 1 instead of being incremented.
TasksAssignedUpdate_Reset(r, m) ==
    [m EXCEPT !.tasksAssigned = 1]

\* { tasksAssigned: (metrics.tasksAssigned || 0) + 1 }
TasksAssignedUpdate(r, m) ==
    [m EXCEPT !.tasksAssigned = r.tasksAssigned + 1]

\* createMetrics({..., tasksAssigned: 1})
TasksAssignedCreate(metricsId, userId) ==
    [MetricsDefaults(metricsId, userId, "Volunteer") EXCEPT !.tasksAssigned = 1]

\* await createMetrics(...) or await updateMetrics(...)
TasksAssignedWrite(s, nextPc) ==
    /\ LET r == reqs[s]
       IN IF ~r.found
          THEN /\ oidCounter' = oidCounter + 1
               /\ metrics' = Append(metrics,
                                    TasksAssignedCreate(oidCounter + 1, r.vol))
          ELSE /\ metrics' = UpdateMetricsStore(r.vol,
                                 TasksAssignedUpdate(r, MetricsOf(r.vol)))
               /\ UNCHANGED oidCounter
    /\ reqs' = [reqs EXCEPT ![s].pc = nextPc]
    /\ UNCHANGED <<donations, tasks, nreq, firestore, screens, ranking>>

\* Donation.findOneAndUpdate({ donationId }, update) replaces the first
\* matching donation by its updated version; nothing when none matches.
UpdateDonationStore(donationId, updated) ==
    LET i == DonationIndex(donationId) IN
      IF i = 0 THEN donations ELSE [donations EXCEPT ![i] = updated]

\* The stored donation Donation.findOneAndUpdate({ donationId }, ...) matches.
DonationOf(donationId) == donations[DonationIndex(donationId)]

----------------------------------------------------------------------------
\* PUT /assign-collection-task/:id

\* isAdmin and the volunteerId check.
AssignCollectionRejection(caller, volunteerId) ==
    IF ~isAdmin(caller) THEN 403
    ELSE IF volunteerId = "" THEN 400
    ELSE 0

\* Mutant: the status is left out of the filter.
PendingDonationIndex_AnyStatus(donationId) == DonationIndex(donationId)

\* Donation.findOne({ donationId, status: "pendingAssignment" })
PendingDonationIndex(donationId) ==
    FirstIndex({i \in 1..Len(donations) :
                   /\ donations[i].donationId = donationId
                   /\ donations[i].status = "pendingAssignment"})

\* The response that ends the request before any write: 403, 400, the 404 of
\* a donation that is missing or not pendingAssignment; 0 when there is none.
AssignCollectionOutcome(caller, donationId, volunteerId) ==
    IF AssignCollectionRejection(caller, volunteerId) # 0
    THEN AssignCollectionRejection(caller, volunteerId)
    ELSE IF PendingDonationIndex(donationId) = 0 THEN 404
    ELSE 0

\* return res.status(...).json(...): nothing was written.
AssignCollectionRejected(s, caller, donationId, volunteerId) ==
    /\ CanStart(s)
    /\ AssignCollectionOutcome(caller, donationId, volunteerId) # 0
    /\ UNCHANGED vars

\* const donation = await Donation.findOne(...): the request holds the
\* donation it read.
AssignCollectionFind(s, caller, donationId, volunteerId) ==
    /\ CanStart(s)
    /\ AssignCollectionOutcome(caller, donationId, volunteerId) = 0
    /\ nreq' = nreq + 1
    /\ LET i == PendingDonationIndex(donationId) IN
         reqs' = [reqs EXCEPT ![s] =
           [IdleReq EXCEPT !.pc = "ac_create", !.op = "assignCollection",
              !.caller = caller, !.id = donationId, !.vol = volunteerId,
              !.coordinates = donations[i].pickupLocation,
              !.address = donations[i].pickupAddress]]
    /\ UNCHANGED <<donations, tasks, metrics, oidCounter, firestore, screens, ranking>>

AssignCollectionCreate(s) ==
    /\ reqs[s].pc = "ac_create"
    /\ CreateTask(s, "collection", "ac_metrics_read")

AssignCollectionMetricsRead(s) ==
    /\ reqs[s].pc = "ac_metrics_read"
    /\ VolunteerMetricsRead(s, "ac_metrics_write")

AssignCollectionMetricsWrite(s) ==
    /\ reqs[s].pc = "ac_metrics_write"
    /\ TasksAssignedWrite(s, "ac_donation_write")

\* { status: "assignedForCollection" }
CollectionAssignedUpdate(d) ==
    [d EXCEPT !.status = "assignedForCollection"]

\* await Donation.findOneAndUpdate({ donationId }, {...}); res.json(...)
AssignCollectionDonationWrite(s) ==
    /\ reqs[s].pc = "ac_donation_write"
    /\ donations' = UpdateDonationStore(reqs[s].id,
                        CollectionAssignedUpdate(DonationOf(reqs[s].id)))
    /\ Respond(s)
    /\ UNCHANGED <<tasks, metrics, oidCounter, nreq, firestore, screens, ranking>>

----------------------------------------------------------------------------
\* PUT /assign-distribution-task/:id

\* String(locationId)
LocationIdString(locationId) ==
    CASE locationId = 1 -> "1"
      [] locationId = 2 -> "2"
      [] locationId = 9 -> "9"
      [] OTHER          -> "0"

\* getOrganizationById(String(locationId)): Organization.findOne(...)
OrganizationsById(locationId) ==
    {o \in Organizations : o.organizationId = LocationIdString(locationId)}

\* isAdmin and the required body fields.
AssignDistributionRejection(caller, volunteerId, locationId) ==
    IF ~isAdmin(caller) THEN 403
    ELSE IF volunteerId = "" \/ locationId = 0 THEN 400
    ELSE 0

\* Mutant: a donation assigned for collection passes for a collected one.
CollectedDonationIndex_TooEarly(donationId) ==
    FirstIndex({i \in 1..Len(donations) :
                   /\ donations[i].donationId = donationId
                   /\ donations[i].status \in {"assignedForCollection", "collected"}})

\* Donation.findOne({ donationId, status: "collected" })
CollectedDonationIndex(donationId) ==
    FirstIndex({i \in 1..Len(donations) :
                   /\ donations[i].donationId = donationId
                   /\ donations[i].status = "collected"})

\* The response that ends the request before any write: 403, 400, the 404 of
\* an unknown organization, the 404 of a donation that is missing or not
\* collected; 0 when there is none.
AssignDistributionOutcome(caller, donationId, volunteerId, locationId) ==
    IF AssignDistributionRejection(caller, volunteerId, locationId) # 0
    THEN AssignDistributionRejection(caller, volunteerId, locationId)
    ELSE IF OrganizationsById(locationId) = {} THEN 404
    ELSE IF CollectedDonationIndex(donationId) = 0 THEN 404
    ELSE 0

\* return res.status(...).json(...): nothing was written.
AssignDistributionRejected(s, caller, donationId, volunteerId, locationId) ==
    /\ CanStart(s)
    /\ AssignDistributionOutcome(caller, donationId, volunteerId, locationId) # 0
    /\ UNCHANGED vars

\* await getOrganizationById(...); await Donation.findOne(...): the request
\* holds the organization it read.  Organizations never change, so the two
\* reads are one step.
AssignDistributionFind(s, caller, donationId, volunteerId, locationId) ==
    /\ CanStart(s)
    /\ AssignDistributionOutcome(caller, donationId, volunteerId, locationId) = 0
    /\ nreq' = nreq + 1
    /\ LET o == CHOOSE o \in OrganizationsById(locationId) : TRUE IN
         reqs' = [reqs EXCEPT ![s] =
           [IdleReq EXCEPT !.pc = "ad_create", !.op = "assignDistribution",
              !.caller = caller, !.id = donationId, !.vol = volunteerId,
              !.coordinates = o.coordinates, !.address = o.address]]
    /\ UNCHANGED <<donations, tasks, metrics, oidCounter, firestore, screens, ranking>>

AssignDistributionCreate(s) ==
    /\ reqs[s].pc = "ad_create"
    /\ CreateTask(s, "distribution", "ad_metrics_read")

AssignDistributionMetricsRead(s) ==
    /\ reqs[s].pc = "ad_metrics_read"
    /\ VolunteerMetricsRead(s, "ad_metrics_write")

AssignDistributionMetricsWrite(s) ==
    /\ reqs[s].pc = "ad_metrics_write"
    /\ TasksAssignedWrite(s, "ad_donation_write")

\* Mutant: the drop-off address is not stored.
DistributionAssignedUpdate_NoAddress(r, d) ==
    [d EXCEPT !.status = "assignedForDistribution",
              !.dropoffLocation = r.coordinates]

\* { status: "assignedForDistribution", dropoffLocation, dropoffAddress }
DistributionAssignedUpdate(r, d) ==
    [d EXCEPT !.status = "assignedForDistribution",
              !.dropoffLocation = r.coordinates,
              !.dropoffAddress = r.address]

\* await Donation.findOneAndUpdate({ donationId }, {...}); res.json(...)
AssignDistributionDonationWrite(s) ==
    /\ reqs[s].pc = "ad_donation_write"
    /\ donations' = UpdateDonationStore(reqs[s].id,
                        DistributionAssignedUpdate(reqs[s], DonationOf(reqs[s].id)))
    /\ Respond(s)
    /\ UNCHANGED <<tasks, metrics, oidCounter, nreq, firestore, screens, ranking>>

----------------------------------------------------------------------------
\* PUT /:taskId/status

\* isVolunteer and the check of the requested status.
UpdateStatusRejection(caller, status) ==
    IF ~isVolunteer(caller) THEN 403
    ELSE IF status = "" \/ status \notin AllowedStatusUpdates THEN 400
    ELSE 0

\* The checks on the task read by Task.findById(taskId): 0 lets the update
\* proceed.
UpdateStatusTaskCheck(i, caller) ==
    IF i = 0 THEN 403
    ELSE IF tasks[i].volunteerId # caller THEN 403
    ELSE IF tasks[i].issueReported \/ tasks[i].status = "pending_review" THEN 400
    ELSE 0

\* The response that ends the request before any write; 0 when there is
\* none.
UpdateStatusOutcome(caller, taskId, status) ==
    IF UpdateStatusRejection(caller, status) # 0
    THEN UpdateStatusRejection(caller, status)
    ELSE UpdateStatusTaskCheck(TaskIndexBy_id(taskId), caller)

\* return res.status(...).json(...): nothing was written.
UpdateStatusRejected(s, caller, taskId, status) ==
    /\ CanStart(s)
    /\ UpdateStatusOutcome(caller, taskId, status) # 0
    /\ UNCHANGED vars

\* const task = await Task.findById(taskId): the request holds the task it
\* read.
UpdateStatusFind(s, caller, taskId, status) ==
    /\ CanStart(s)
    /\ UpdateStatusOutcome(caller, taskId, status) = 0
    /\ nreq' = nreq + 1
    /\ LET i == TaskIndexBy_id(taskId) IN
         reqs' = [reqs EXCEPT ![s] =
           [IdleReq EXCEPT !.pc = "us_task_write", !.op = "updateStatus",
              !.caller = caller, !.id = taskId, !.vol = caller,
              !.status = status,
              !.taskType = tasks[i].taskType,
              !.donationId = tasks[i].donationId]]
    /\ UNCHANGED <<donations, tasks, metrics, oidCounter, firestore, screens, ranking>>

\* Mutant: every status update stamps startedAt.
StatusUpdateData_AlwaysStarted(status, now, t) ==
    IF status = "completed" THEN [t EXCEPT !.status = status, !.completedAt = now]
    ELSE [t EXCEPT !.status = status, !.startedAt = now]

\* updateData = { status } plus completedAt or startedAt
StatusUpdateData(status, now, t) ==
    IF status = "completed" THEN [t EXCEPT !.status = status, !.completedAt = now]
    ELSE IF status = "enRoute" THEN [t EXCEPT !.status = status, !.startedAt = now]
    ELSE [t EXCEPT !.status = status]

\* Task.findByIdAndUpdate(id, update) replaces the task with that _id by its
\* updated version; nothing when none matches.
UpdateTaskBy_id(id, updated) ==
    LET i == TaskIndexBy_id(id) IN
      IF i = 0 THEN tasks ELSE [tasks EXCEPT ![i] = updated]

\* The stored task Task.findByIdAndUpdate(id, ...) matches.
TaskBy_id(id) == tasks[TaskIndexBy_id(id)]

\* await Task.findByIdAndUpdate(taskId, updateData, { new: true })
UpdateStatusTaskWrite(s) ==
    /\ reqs[s].pc = "us_task_write"
    /\ tasks' = UpdateTaskBy_id(reqs[s].id,
                    StatusUpdateData(reqs[s].status, nreq, TaskBy_id(reqs[s].id)))
    /\ reqs' = [reqs EXCEPT ![s].pc = "us_donation_read"]
    /\ UNCHANGED <<donations, metrics, oidCounter, nreq, firestore, screens, ranking>>

\* donationUpdate: which fields the completion of a task writes, if any.
HasDonationUpdate(taskType, status) ==
    status = "completed" /\ taskType \in {"collection", "distribution"}

DonationUpdate(taskType, volunteerId, now, d) ==
    IF taskType = "collection"
    THEN [d EXCEPT !.status = "collected", !.collectedAt = now,
                   !.collectedByVolunteerId = volunteerId]
    ELSE [d EXCEPT !.status = "delivered", !.deliveredAt = now,
                   !.distributionVolunteerId = volunteerId]

\* const donation = await Donation.findOne({ donationId: task.donationId });
\* a status other than completed has nothing more to do and responds.
UpdateStatusDonationRead(s) ==
    /\ reqs[s].pc = "us_donation_read"
    /\ LET r == reqs[s]
           found == DonationIndex(r.donationId) # 0
       IN IF r.status # "completed"
          THEN Respond(s)
          ELSE reqs' = [reqs EXCEPT ![s].pc =
                          IF found /\ HasDonationUpdate(r.taskType, r.status)
                          THEN "us_donation_write" ELSE "us_metrics_read"]
    /\ UNCHANGED <<donations, tasks, metrics, oidCounter, nreq, firestore, screens, ranking>>

\* await Donation.findOneAndUpdate({ donationId: task.donationId }, donationUpdate)
UpdateStatusDonationWrite(s) ==
    /\ reqs[s].pc = "us_donation_write"
    /\ LET r == reqs[s] IN
         donations' = UpdateDonationStore(r.donationId,
                        DonationUpdate(r.taskType, r.vol, nreq,
                                       DonationOf(r.donationId)))
    /\ reqs' = [reqs EXCEPT ![s].pc = "us_metrics_read"]
    /\ UNCHANGED <<tasks, metrics, oidCounter, nreq, firestore, screens, ranking>>

UpdateStatusMetricsRead(s) ==
    /\ reqs[s].pc = "us_metrics_read"
    /\ VolunteerMetricsRead(s, "us_metrics_write")

\* Mutant: a completed collection counts as a delivery.
TaskCompletedUpdate_Swapped(r, m) ==
    IF r.taskType = "distribution"
    THEN [m EXCEPT !.tasksCompleted = r.tasksCompleted + 1,
                   !.donationsCollected = r.donationsCollected + 1]
    ELSE [m EXCEPT !.tasksCompleted = r.tasksCompleted + 1,
                   !.donationsDelivered = r.donationsDelivered + 1]

\* Mutant: a completion counts twice in tasksCompleted.
TaskCompletedUpdate_CountsTwice(r, m) ==
    IF r.taskType = "collection"
    THEN [m EXCEPT !.tasksCompleted = r.tasksCompleted + 2,
                   !.donationsCollected = r.donationsCollected + 1]
    ELSE [m EXCEPT !.tasksCompleted = r.tasksCompleted + 2,
                   !.donationsDelivered = r.donationsDelivered + 1]

\* { tasksCompleted: ... + 1, donationsCollected or donationsDelivered: ... + 1 }
TaskCompletedUpdate(r, m) ==
    IF r.taskType = "collection"
    THEN [m EXCEPT !.tasksCompleted = r.tasksCompleted + 1,
                   !.donationsCollected = r.donationsCollected + 1]
    ELSE [m EXCEPT !.tasksCompleted = r.tasksCompleted + 1,
                   !.donationsDelivered = r.donationsDelivered + 1]

\* base = { ..., tasksCompleted: 1 } plus donationsCollected or donationsDelivered
TaskCompletedCreate(metricsId, userId, taskType) ==
    IF taskType = "collection"
    THEN [MetricsDefaults(metricsId, userId, "Volunteer")
            EXCEPT !.tasksCompleted = 1, !.donationsCollected = 1]
    ELSE [MetricsDefaults(metricsId, userId, "Volunteer")
            EXCEPT !.tasksCompleted = 1, !.donationsDelivered = 1]

\* await createMetrics(base) or await updateMetrics(...); res.json(...)
UpdateStatusMetricsWrite(s) ==
    /\ reqs[s].pc = "us_metrics_write"
    /\ LET r == reqs[s]
       IN IF ~r.found
          THEN /\ oidCounter' = oidCounter + 1
               /\ metrics' = Append(metrics,
                    TaskCompletedCreate(oidCounter + 1, r.vol, r.taskType))
          ELSE /\ metrics' = UpdateMetricsStore(r.vol,
                                 TaskCompletedUpdate(r, MetricsOf(r.vol)))
               /\ UNCHANGED oidCounter
    /\ Respond(s)
    /\ UNCHANGED <<donations, tasks, nreq, firestore, screens, ranking>>

----------------------------------------------------------------------------
\* PUT /report-issue/:taskId

\* isVolunteer and the issueNotes check.
ReportIssueRejection(caller, issueNotes) ==
    IF ~isVolunteer(caller) THEN 403
    ELSE IF issueNotes = "" THEN 400
    ELSE 0

\* Task.findOne({ _id: taskId, volunteerId })
OwnedTaskIndex(taskId, volunteerId) ==
    FirstIndex({i \in 1..Len(tasks) : /\ tasks[i]._id = taskId
                                       /\ tasks[i].volunteerId = volunteerId})

\* The response that ends the request before any write: 403, 400, the 403 of
\* a task that is missing or not the caller's; 0 when there is none.
ReportIssueOutcome(caller, taskId, issueNotes) ==
    IF ReportIssueRejection(caller, issueNotes) # 0
    THEN ReportIssueRejection(caller, issueNotes)
    ELSE IF OwnedTaskIndex(taskId, caller) = 0 THEN 403
    ELSE 0

\* return res.status(...).json(...): nothing was written.
ReportIssueRejected(s, caller, taskId, issueNotes) ==
    /\ CanStart(s)
    /\ ReportIssueOutcome(caller, taskId, issueNotes) # 0
    /\ UNCHANGED vars

\* const task = await Task.findOne({ _id: taskId, volunteerId })
ReportIssueFind(s, caller, taskId, issueNotes) ==
    /\ CanStart(s)
    /\ ReportIssueOutcome(caller, taskId, issueNotes) = 0
    /\ nreq' = nreq + 1
    /\ reqs' = [reqs EXCEPT ![s] =
         [IdleReq EXCEPT !.pc = "ri_write", !.op = "reportIssue",
            !.caller = caller, !.id = taskId, !.vol = caller,
            !.notes = issueNotes]]
    /\ UNCHANGED <<donations, tasks, metrics, oidCounter, firestore, screens, ranking>>

\* Mutant: the report leaves the task's status as it was.
IssueUpdate_KeepsStatus(issueNotes, t) ==
    [t EXCEPT !.issueReported = TRUE, !.issueNotes = issueNotes]

\* { issueReported: true, issueNotes, status: "pending_review" }
IssueUpdate(issueNotes, t) ==
    [t EXCEPT !.issueReported = TRUE, !.issueNotes = issueNotes,
              !.status = "pending_review"]

\* await Task.findOneAndUpdate({ _id: taskId }, {...}); res.json(...)
ReportIssueWrite(s) ==
    /\ reqs[s].pc = "ri_write"
    /\ tasks' = UpdateTaskBy_id(reqs[s].id,
                    IssueUpdate(reqs[s].notes, TaskBy_id(reqs[s].id)))
    /\ Respond(s)
    /\ UNCHANGED <<donations, metrics, oidCounter, nreq, firestore, screens, ranking>>

----------------------------------------------------------------------------
\* PUT /reassign-task/:taskId

\* isAdmin and the newVolunteerId check.
ReassignRejection(caller, newVolunteerId) ==
    IF ~isAdmin(caller) THEN 403
    ELSE IF newVolunteerId = "" THEN 400
    ELSE 0

\* Mutant: the reassignment also clears the task's address.
ReassignUpdate_ClearsAddress(newVolunteerId, now, t) ==
    [t EXCEPT !.volunteerId = newVolunteerId, !.status = "assigned",
              !.issueReported = FALSE, !.issueNotes = "", !.assignedAt = now,
              !.address = ""]

\* Mutant: assignedAt is not stamped again.
ReassignUpdate_StaleAssignedAt(newVolunteerId, now, t) ==
    [t EXCEPT !.volunteerId = newVolunteerId, !.status = "assigned",
              !.issueReported = FALSE, !.issueNotes = ""]

\* { volunteerId, status: "assigned", issueReported: false, issueNotes: null,
\*   assignedAt: new Date() }
ReassignUpdate(newVolunteerId, now, t) ==
    [t EXCEPT !.volunteerId = newVolunteerId, !.status = "assigned",
              !.issueReported = FALSE, !.issueNotes = "", !.assignedAt = now]

\* The response that ends the request without a write: 403, 400, the 404 of
\* a task that findOneAndUpdate({ taskId }) does not match; 0 when there is
\* none.
ReassignOutcome(caller, taskId, newVolunteerId) ==
    IF ReassignRejection(caller, newVolunteerId) # 0
    THEN ReassignRejection(caller, newVolunteerId)
    ELSE IF TaskIndexByTaskId(taskId) = 0 THEN 404
    ELSE 0

\* return res.status(...).json(...): nothing was written.
ReassignRejected(s, caller, taskId, newVolunteerId) ==
    /\ CanStart(s)
    /\ ReassignOutcome(caller, taskId, newVolunteerId) # 0
    /\ UNCHANGED vars

\* await Task.findOneAndUpdate({ taskId }, {...}, { new: true }); res.json(...)
ReassignTask(s, caller, taskId, newVolunteerId) ==
    /\ CanStart(s)
    /\ ReassignOutcome(caller, taskId, newVolunteerId) = 0
    /\ nreq' = nreq + 1
    /\ LET i == TaskIndexByTaskId(taskId) IN
         tasks' = [tasks EXCEPT ![i] =
                     ReassignUpdate(newVolunteerId, nreq + 1, @)]
    /\ UNCHANGED <<donations, metrics, reqs, oidCounter, firestore, screens, ranking>>

----------------------------------------------------------------------------
\* Store calls that fail (the awaited promise rejects).

\* The positions at which the next store call is one of the Metrics block,
\* inside the route's inner try.
MetricsPcs ==
    {"post_metrics_read", "post_metrics_write",
     "ac_metrics_read", "ac_metrics_write",
     "ad_metrics_read", "ad_metrics_write",
     "us_metrics_read", "us_metrics_write"}

\* The positions at which the next store call is outside the Metrics block,
\* inside the route's outer try.
StoreCallPcs ==
    {"ac_create", "ac_donation_write", "ad_create", "ad_donation_write",
     "us_task_write", "us_donation_read", "us_donation_write", "ri_write"}

\* Mutant: a failure in the Metrics block reaches the route's outer catch.
AfterMetricsBlock_Abort(op) == "catch"

\* Where a route continues after its inner catch (console.error only): the
\* assignment routes go on to the donation write, POST /post and the status
\* route to their success response.
AfterMetricsBlock(op) ==
    CASE op = "assignCollection"   -> "ac_donation_write"
      [] op = "assignDistribution" -> "ad_donation_write"
      [] OTHER                     -> "idle"

\* getMetricsByUserId, createMetrics or updateMetrics throws: the inner catch
\* logs and the route continues after the Metrics block.
MetricsFails(s) ==
    /\ reqs[s].pc \in MetricsPcs
    /\ LET next == AfterMetricsBlock(reqs[s].op) IN
         reqs' = [reqs EXCEPT ![s] =
                    IF next = "idle" THEN IdleReq ELSE [@ EXCEPT !.pc = next]]
    /\ UNCHANGED <<donations, tasks, metrics, oidCounter, nreq, firestore, screens, ranking>>

\* Task.create, Task.findOneAndUpdate, Donation.findOne or
\* Donation.findOneAndUpdate throws: control passes to the outer catch.
StoreCallFails(s) ==
    /\ reqs[s].pc \in StoreCallPcs
    /\ reqs' = [reqs EXCEPT ![s].pc = "catch"]
    /\ UNCHANGED <<donations, tasks, metrics, oidCounter, nreq, firestore, screens, ranking>>

\* catch (error) { res.status(500).json(...) }: nothing is undone.
SendFailure(s) ==
    /\ reqs[s].pc = "catch"
    /\ Respond(s)
    /\ UNCHANGED <<donations, tasks, metrics, oidCounter, nreq, firestore, screens, ranking>>

----------------------------------------------------------------------------
\* The mobile client (Flutter): it keeps its own 'donations' collection in
\* Firestore and writes it directly, without going through the routes above.

\* enum DonationStatus of the client's DonationModel.
ClientDonationStatus ==
    {"pendingAssignment", "assignedForCollection", "enRouteForCollection",
     "collected", "assignedForDistribution", "enRouteForDistribution",
     "delivered", "issueReported"}

ClientDonors == {"D1"}

\* The volunteers the admin can select; "" is no selection.
ClientVolunteers == {u \in Users : RoleOf(u) = "Volunteer"}

\* No detail screen is open.
NoScreens == [donation |-> 0, task |-> [donationId |-> 0, status |-> ""]]

\* Writes by the client arrive one after the other, up to MaxClientWrites.
AdmitClient == nreq < MaxClientWrites

FirestoreIndex(donationId) ==
    FirstIndex({i \in 1..Len(firestore) : firestore[i].donationId = donationId})

\* DonationService.postNewDonation: a new document, status pendingAssignment.
PostNewDonation(donor) ==
    /\ AdmitClient
    /\ Len(firestore) < MaxClientDonations
    /\ nreq' = nreq + 1
    /\ oidCounter' = oidCounter + 1
    /\ firestore' = Append(firestore,
          [donationId |-> oidCounter + 1, donorId |-> donor,
           status |-> "pendingAssignment", collectionVolunteerId |-> "",
           distributionVolunteerId |-> "", collectedAt |-> 0,
           deliveredAt |-> 0, postedAt |-> nreq + 1])
    /\ UNCHANGED <<donations, tasks, metrics, reqs, screens, ranking>>

\* updateData of DonationService.updateDonationStatus applied to a document:
\* the status the caller passes, and the fields that go with it.
UpdateData(newStatus, volunteerId, now, d) ==
    IF newStatus = "assignedForCollection" /\ volunteerId # ""
    THEN [d EXCEPT !.status = newStatus,
                   !.collectionVolunteerId = volunteerId,
                   !.distributionVolunteerId = ""]
    ELSE IF newStatus = "collected"
    THEN [d EXCEPT !.status = newStatus, !.collectedAt = now,
                   !.collectionVolunteerId = ""]
    ELSE IF newStatus = "delivered"
    THEN [d EXCEPT !.status = newStatus, !.deliveredAt = now,
                   !.collectionVolunteerId = "",
                   !.distributionVolunteerId = ""]
    ELSE [d EXCEPT !.status = newStatus]

\* DonationService.updateDonationStatus: doc(donationId).update(updateData),
\* whatever the document's current status.
UpdateDonationStatus(donationId, newStatus, volunteerId) ==
    /\ FirestoreIndex(donationId) # 0
    /\ nreq' = nreq + 1
    /\ firestore' = [firestore EXCEPT ![FirestoreIndex(donationId)] =
                       UpdateData(newStatus, volunteerId, nreq + 1, @)]

\* The admin dashboard lists streamPendingAssignments(); tapping a donation
\* opens AdminAssignmentDetailScreen(donation: ...).
OpenAssignmentDetail(i) ==
    /\ screens.donation = 0
    /\ i \in 1..Len(firestore)
    /\ firestore[i].status = "pendingAssignment"
    /\ screens' = [screens EXCEPT !.donation = firestore[i].donationId]
    /\ UNCHANGED <<donations, tasks, metrics, reqs, oidCounter, nreq, firestore, ranking>>

\* _assignCollectionTask with a volunteer selected: the write, then pop().
AssignCollectionTask(volunteerId) ==
    /\ AdmitClient
    /\ screens.donation # 0
    /\ UpdateDonationStatus(screens.donation, "assignedForCollection",
                            volunteerId)
    /\ screens' = [screens EXCEPT !.donation = 0]
    /\ UNCHANGED <<donations, tasks, metrics, reqs, oidCounter, ranking>>

\* The volunteer's task list shows streamActiveVolunteerTasks(volunteerId);
\* tapping a task opens TaskDetailScreen(task: ...), which keeps the document
\* as it was read.
OpenTaskDetail(volunteerId, i) ==
    /\ screens.task.donationId = 0
    /\ i \in 1..Len(firestore)
    /\ firestore[i].status \notin {"delivered", "issueReported"}
    /\ firestore[i].collectionVolunteerId = volunteerId
    /\ screens' = [screens EXCEPT !.task =
                     [donationId |-> firestore[i].donationId,
                      status |-> firestore[i].status]]
    /\ UNCHANGED <<donations, tasks, metrics, reqs, oidCounter, nreq, firestore, ranking>>

\* _getNextStatus
GetNextStatus(currentStatus) ==
    CASE currentStatus = "assignedForCollection"   -> "enRouteForCollection"
      [] currentStatus = "enRouteForCollection"    -> "collected"
      [] currentStatus = "assignedForDistribution" -> "enRouteForDistribution"
      [] currentStatus = "enRouteForDistribution"  -> "delivered"
      [] OTHER                                     -> currentStatus

\* _handleActionButton: writes the status after the one the screen holds,
\* then pop().
HandleActionButton ==
    /\ AdmitClient
    /\ screens.task.donationId # 0
    /\ UpdateDonationStatus(screens.task.donationId,
                            GetNextStatus(screens.task.status), "")
    /\ screens' = [screens EXCEPT !.task = NoScreens.task]
    /\ UNCHANGED <<donations, tasks, metrics, reqs, oidCounter, ranking>>

\* _reportIssue, confirmed in the dialog: writes issueReported, then pop().
ReportIssue ==
    /\ AdmitClient
    /\ screens.task.donationId # 0
    /\ UpdateDonationStatus(screens.task.donationId, "issueReported", "")
    /\ screens' = [screens EXCEPT !.task = NoScreens.task]
    /\ UNCHANGED <<donations, tasks, metrics, reqs, oidCounter, ranking>>

----------------------------------------------------------------------------
\* The web client's donationService.getVolunteers(pickupCoords).

\* Coordinates are [lng, lat] in whole degrees; all on the meridian lng = 20.
HomeCoordinates == {<<20, 10>>, <<20, 11>>, <<20, 14>>}

\* pickupCoords: a pair, or a list the length test rejects.
PickupCoords == {<<20, 12>>, <<>>}

\* homeLocation of a volunteer in the response of GET /volunteers: missing
\* (the document has no homeLocation.coordinates), the empty list that
\* VolunteerSchema gives an array path never set, or a pair.
HomeLocations ==
    {[present |-> FALSE, coordinates |-> <<>>],
     [present |-> TRUE, coordinates |-> <<>>]}
    \cup {[present |-> TRUE, coordinates |-> c] : c \in HomeCoordinates}

\* The lists of up to MaxVolunteers volunteers; uid is the place in the list.
VolunteerLists ==
    UNION {{[i \in 1..n |-> [uid |-> i, homeLocation |-> h[i]]] :
              h \in [1..n -> HomeLocations]} : n \in 0..MaxVolunteers}

NoRanking == [pickupCoords |-> <<>>, volunteers |-> <<>>, result |-> <<>>, done |-> FALSE]

AbsDiff(a, b) == IF a >= b THEN a - b ELSE b - a

\* JavaScript numbers: a finite value in km, NaN, or Infinity.
Km(x) == [kind |-> "finite", km |-> x]
NaN == [kind |-> "NaN", km |-> 0]
Infinity == [kind |-> "Infinity", km |-> 0]

\* calculateDistance: coord1[1] of a list shorter than two is undefined and
\* the arithmetic gives NaN. For two points on one meridian dLon is 0 and the
\* haversine formula reduces to R * |dLat| * PI / 180, 111 km per degree.
calculateDistance(coord1, coord2) ==
    IF Len(coord1) < 2 \/ Len(coord2) < 2 THEN NaN
    ELSE Km(111 * AbsDiff(coord2[2], coord1[2]))

\* The distanceKm the map step attaches: v.homeLocation &&
\* v.homeLocation.coordinates is truthy for every list, the empty one too.
distanceKm(v, pickupCoords) ==
    IF v.homeLocation.present
    THEN calculateDistance(v.homeLocation.coordinates, pickupCoords)
    ELSE Infinity

\* The sign of a.distanceKm - b.distanceKm as Array.prototype.sort uses it: a
\* NaN difference (a NaN operand, or Infinity - Infinity) counts as 0.
CompareDistance(a, b) ==
    IF a = NaN \/ b = NaN THEN 0
    ELSE IF a = Infinity THEN (IF b = Infinity THEN 0 ELSE 1)
    ELSE IF b = Infinity THEN -1
    ELSE IF a.km < b.km THEN -1 ELSE IF a.km > b.km THEN 1 ELSE 0

\* The orders Array.prototype.sort may return for a list with the given
\* distances: no element directly precedes one the comparator puts before it,
\* and elements with the same distance keep their order (the sort is stable).
\* With a consistent comparator this is the one stable sorted order; with a
\* NaN among the distances the comparator is not consistent and the order is
\* implementation-defined.
SortOrders(dist) ==
    LET n == Len(dist) IN
    {p \in Permutations(1..n) :
        /\ \A i \in 1..(n - 1) : CompareDistance(dist[p[i]], dist[p[i + 1]]) <= 0
        /\ \A i, j \in 1..n :
              (i < j /\ dist[p[i]] = dist[p[j]]) => p[i] < p[j]}

\* getVolunteers: the list as received when pickupCoords is not a pair,
\* else the list with distanceKm attached, sorted.
GetVolunteers ==
    /\ ~ranking.done
    /\ LET vs == ranking.volunteers
           pc == ranking.pickupCoords
           dist == [i \in 1..Len(vs) |-> distanceKm(vs[i], pc)]
       IN IF Len(pc) = 2
          THEN \E p \in SortOrders(dist) :
                  ranking' = [ranking EXCEPT
                     !.done = TRUE,
                     !.result = [i \in 1..Len(vs) |->
                                   [uid |-> vs[p[i]].uid,
                                    homeLocation |-> vs[p[i]].homeLocation,
                                    distanceKm |-> dist[p[i]]]]]
          ELSE ranking' = [ranking EXCEPT !.done = TRUE, !.result = vs]
    /\ UNCHANGED <<donations, tasks, metrics, reqs, oidCounter, nreq,
                   firestore, screens>>

----------------------------------------------------------------------------
Init ==
    /\ donations = <<>>
    /\ tasks = <<>>
    /\ metrics = <<>>
    /\ reqs = [s \in Slots |-> IdleReq]
    /\ oidCounter = 0
    /\ nreq = 0
    /\ firestore = <<>>
    /\ screens = NoScreens
    /\ ranking = NoRanking

\* The stores are empty and getVolunteers is called with any list of
\* volunteers and any pickupCoords.
InitRanking ==
    /\ donations = <<>>
    /\ tasks = <<>>
    /\ metrics = <<>>
    /\ reqs = [s \in Slots |-> IdleReq]
    /\ oidCounter = 0
    /\ nreq = 0
    /\ firestore = <<>>
    /\ screens = NoScreens
    /\ ranking \in {[pickupCoords |-> pc, volunteers |-> vs, result |-> <<>>,
                      done |-> FALSE] : pc \in PickupCoords, vs \in VolunteerLists}

\* A request in flight performs its next store call.
Proceed(s) ==
    \/ PostMetricsRead(s)
    \/ PostMetricsWrite(s)
    \/ AssignCollectionCreate(s)
    \/ AssignCollectionMetricsRead(s)
    \/ AssignCollectionMetricsWrite(s)
    \/ AssignCollectionDonationWrite(s)
    \/ AssignDistributionCreate(s)
    \/ AssignDistributionMetricsRead(s)
    \/ AssignDistributionMetricsWrite(s)
    \/ AssignDistributionDonationWrite(s)
    \/ UpdateStatusTaskWrite(s)
    \/ UpdateStatusDonationRead(s)
    \/ UpdateStatusDonationWrite(s)
    \/ UpdateStatusMetricsRead(s)
    \/ UpdateStatusMetricsWrite(s)
    \/ ReportIssueWrite(s)

\* A request arrives (its handler runs up to its first store call and either
\* answers at once or goes on), or a request in flight proceeds.
Next ==
    \E s \in Slots :
       \/ Admit /\ \E c \in Users, q \in Quantities : PostRejected(s, c, q)
       \/ Admit /\ Len(donations) < MaxDonations
                /\ \E c \in Users, q \in Quantities, p \in PickupPlaces :
                      PostSave(s, c, q, p)
       \/ Admit /\ \E c \in Users, d \in DonationIdInputs, v \in VolunteerIds :
             AssignCollectionRejected(s, c, d, v)
       \/ Admit /\ \E c \in Users, d \in DonationIdInputs, v \in VolunteerIds :
             AssignCollectionFind(s, c, d, v)
       \/ Admit /\ \E c \in Users, d \in DonationIdInputs, v \in VolunteerIds,
             l \in LocationIds : AssignDistributionRejected(s, c, d, v, l)
       \/ Admit /\ \E c \in Users, d \in DonationIdInputs, v \in VolunteerIds,
             l \in LocationIds : AssignDistributionFind(s, c, d, v, l)
       \/ Admit /\ \E c \in Users, t \in TaskIdInputs, st \in StatusInputs :
             UpdateStatusRejected(s, c, t, st)
       \/ Admit /\ \E c \in Users, t \in TaskIdInputs, st \in StatusInputs :
             UpdateStatusFind(s, c, t, st)
       \/ Admit /\ \E c \in Users, t \in TaskIdInputs, n \in IssueNotes :
             ReportIssueRejected(s, c, t, n)
       \/ Admit /\ \E c \in Users, t \in TaskIdInputs, n \in IssueNotes :
             ReportIssueFind(s, c, t, n)
       \/ Admit /\ \E c \in Users, t \in TaskIdInputs, v \in VolunteerIds :
             ReassignRejected(s, c, t, v)
       \/ Admit /\ \E c \in Users, t \in TaskIdInputs, v \in VolunteerIds :
             ReassignTask(s, c, t, v)
       \/ Proceed(s)

NextSeq ==
    \E s \in Slots :
       \/ AdmitSeq /\ \E c \in Users, q \in Quantities : PostRejected(s, c, q)
       \/ AdmitSeq /\ Len(donations) < MaxSeqDonations
                   /\ \E c \in Users, q \in Quantities, p \in PickupPlaces :
                         PostSave(s, c, q, p)
       \/ AdmitSeq /\ \E c \in Users, d \in DonationIdInputs, v \in VolunteerIds :
             AssignCollectionRejected(s, c, d, v)
       \/ AdmitSeq /\ \E c \in Users, d \in DonationIdInputs, v \in VolunteerIds :
             AssignCollectionFind(s, c, d, v)
       \/ AdmitSeq /\ \E c \in Users, d \in DonationIdInputs, v \in VolunteerIds,
             l \in LocationIds : AssignDistributionRejected(s, c, d, v, l)
       \/ AdmitSeq /\ \E c \in Users, d \in DonationIdInputs, v \in VolunteerIds,
             l \in LocationIds : AssignDistributionFind(s, c, d, v, l)
       \/ AdmitSeq /\ \E c \in Users, t \in TaskIdInputs, st \in StatusInputs :
             UpdateStatusRejected(s, c, t, st)
       \/ AdmitSeq /\ \E c \in Users, t \in TaskIdInputs, st \in StatusInputs :
             UpdateStatusFind(s, c, t, st)
       \/ AdmitSeq /\ \E c \in Users, t \in TaskIdInputs, n \in IssueNotes :
             ReportIssueRejected(s, c, t, n)
       \/ AdmitSeq /\ \E c \in Users, t \in TaskIdInputs, n \in IssueNotes :
             ReportIssueFind(s, c, t, n)
       \/ AdmitSeq /\ \E c \in Users, t \in TaskIdInputs, v \in VolunteerIds :
             ReassignRejected(s, c, t, v)
       \/ AdmitSeq /\ \E c \in Users, t \in TaskIdInputs, v \in VolunteerIds :
             ReassignTask(s, c, t, v)
       \/ Proceed(s)

\* Only POST /post is exercised, by any number of overlapping requests.
NextPost ==
    \E s \in Slots :
       \/ AdmitPost /\ \E c \in Users, q \in Quantities : PostRejected(s, c, q)
       \/ AdmitPost /\ \E c \in Users, q \in Quantities, p \in PickupPlaces :
                         PostSave(s, c, q, p)
       \/ PostMetricsRead(s)
       \/ PostMetricsWrite(s)

\* Requests one at a time, every store call of a request in flight either
\* succeeds or fails.
NextFault ==
    \E s \in Slots :
       \/ AdmitFault /\ \E c \in Users, q \in Quantities : PostRejected(s, c, q)
       \/ AdmitFault /\ Len(donations) < MaxDonations
                     /\ \E c \in Users, q \in Quantities, p \in PickupPlaces :
                           PostSave(s, c, q, p)
       \/ AdmitFault /\ \E c \in Users, d \in DonationIdInputs, v \in VolunteerIds :
             AssignCollectionRejected(s, c, d, v)
       \/ AdmitFault /\ \E c \in Users, d \in DonationIdInputs, v \in VolunteerIds :
             AssignCollectionFind(s, c, d, v)
       \/ AdmitFault /\ \E c \in Users, d \in DonationIdInputs, v \in VolunteerIds,
             l \in LocationIds : AssignDistributionRejected(s, c, d, v, l)
       \/ AdmitFault /\ \E c \in Users, d \in DonationIdInputs, v \in VolunteerIds,
             l \in LocationIds : AssignDistributionFind(s, c, d, v, l)
       \/ AdmitFault /\ \E c \in Users, t \in TaskIdInputs, st \in StatusInputs :
             UpdateStatusRejected(s, c, t, st)
       \/ AdmitFault /\ \E c \in Users, t \in TaskIdInputs, st \in StatusInputs :
             UpdateStatusFind(s, c, t, st)
       \/ AdmitFault /\ \E c \in Users, t \in TaskIdInputs, n \in IssueNotes :
             ReportIssueRejected(s, c, t, n)
       \/ AdmitFault /\ \E c \in Users, t \in TaskIdInputs, n \in IssueNotes :
             ReportIssueFind(s, c, t, n)
       \/ AdmitFault /\ \E c \in Users, t \in TaskIdInputs, v \in VolunteerIds :
             ReassignRejected(s, c, t, v)
       \/ AdmitFault /\ \E c \in Users, t \in TaskIdInputs, v \in VolunteerIds :
             ReassignTask(s, c, t, v)
       \/ Proceed(s)
       \/ MetricsFails(s)
       \/ StoreCallFails(s)
       \/ SendFailure(s)

\* Only the mobile client acts.
NextClient ==
    \/ \E d \in ClientDonors : PostNewDonation(d)
    \/ \E i \in 1..MaxClientDonations : OpenAssignmentDetail(i)
    \/ \E v \in ClientVolunteers : AssignCollectionTask(v)
    \/ \E v \in ClientVolunteers, i \in 1..MaxClientDonations :
          OpenTaskDetail(v, i)
    \/ HandleActionButton
    \/ ReportIssue

\* A serial run of requests followed by requests that overlap.
NextTail ==
    \E s \in Slots :
       \/ AdmitTail /\ \E c \in Users, q \in Quantities : PostRejected(s, c, q)
       \/ AdmitTail /\ Len(donations) < MaxDonations
                       /\ \E c \in Users, q \in Quantities, p \in PickupPlaces :
                             PostSave(s, c, q, p)
       \/ AdmitTail /\ \E c \in Users, d \in DonationIdInputs, v \in VolunteerIds :
             AssignCollectionRejected(s, c, d, v)
       \/ AdmitTail /\ \E c \in Users, d \in DonationIdInputs, v \in VolunteerIds :
             AssignCollectionFind(s, c, d, v)
       \/ AdmitTail /\ \E c \in Users, d \in DonationIdInputs, v \in VolunteerIds,
             l \in LocationIds : AssignDistributionRejected(s, c, d, v, l)
       \/ AdmitTail /\ \E c \in Users, d \in DonationIdInputs, v \in VolunteerIds,
             l \in LocationIds : AssignDistributionFind(s, c, d, v, l)
       \/ AdmitTail /\ \E c \in Users, t \in TaskIdInputs, st \in StatusInputs :
             UpdateStatusRejected(s, c, t, st)
       \/ AdmitTail /\ \E c \in Users, t \in TaskIdInputs, st \in StatusInputs :
             UpdateStatusFind(s, c, t, st)
       \/ AdmitTail /\ \E c \in Users, t \in TaskIdInputs, n \in IssueNotes :
             ReportIssueRejected(s, c, t, n)
       \/ AdmitTail /\ \E c \in Users, t \in TaskIdInputs, n \in IssueNotes :
             ReportIssueFind(s, c, t, n)
       \/ AdmitTail /\ \E c \in Users, t \in TaskIdInputs, v \in VolunteerIds :
             ReassignRejected(s, c, t, v)
       \/ AdmitTail /\ \E c \in Users, t \in TaskIdInputs, v \in VolunteerIds :
             ReassignTask(s, c, t, v)
       \/ Proceed(s)

\* Requests one at a time, their volunteerId / newVolunteerId drawn from
\* AnyVolunteerIds.
NextUnknown ==
    \E s \in Slots :
       \/ AdmitUnknown /\ \E c \in Users, q \in Quantities : PostRejected(s, c, q)
       \/ AdmitUnknown /\ Len(donations) < MaxDonations
                       /\ \E c \in Users, q \in Quantities, p \in PickupPlaces :
                             PostSave(s, c, q, p)
       \/ AdmitUnknown /\ \E c \in Users, d \in DonationIdInputs, v \in AnyVolunteerIds :
             AssignCollectionRejected(s, c, d, v)
       \/ AdmitUnknown /\ \E c \in Users, d \in DonationIdInputs, v \in AnyVolunteerIds :
             AssignCollectionFind(s, c, d, v)
       \/ AdmitUnknown /\ \E c \in Users, d \in DonationIdInputs, v \in AnyVolunteerIds,
             l \in LocationIds : AssignDistributionRejected(s, c, d, v, l)
       \/ AdmitUnknown /\ \E c \in Users, d \in DonationIdInputs, v \in AnyVolunteerIds,
             l \in LocationIds : AssignDistributionFind(s, c, d, v, l)
       \/ AdmitUnknown /\ \E c \in Users, t \in TaskIdInputs, st \in StatusInputs :
             UpdateStatusRejected(s, c, t, st)
       \/ AdmitUnknown /\ \E c \in Users, t \in TaskIdInputs, st \in StatusInputs :
             UpdateStatusFind(s, c, t, st)
       \/ AdmitUnknown /\ \E c \in Users, t \in TaskIdInputs, n \in IssueNotes :
             ReportIssueRejected(s, c, t, n)
       \/ AdmitUnknown /\ \E c \in Users, t \in TaskIdInputs, n \in IssueNotes :
             ReportIssueFind(s, c, t, n)
       \/ AdmitUnknown /\ \E c \in Users, t \in TaskIdInputs, v \in AnyVolunteerIds :
             ReassignRejected(s, c, t, v)
       \/ AdmitUnknown /\ \E c \in Users, t \in TaskIdInputs, v \in AnyVolunteerIds :
             ReassignTask(s, c, t, v)
       \/ Proceed(s)

Spec == Init /\ [][Next]_vars

SpecUnknown == Init /\ [][NextUnknown]_vars

SpecTail == Init /\ [][NextTail]_vars

NextRanking == GetVolunteers

SpecRanking == InitRanking /\ [][NextRanking]_vars

SpecClient == Init /\ [][NextClient]_vars

SpecFault == Init /\ [][NextFault]_vars

SpecPost == Init /\ [][NextPost]_vars

SpecSeq == Init /\ [][NextSeq]_vars

----------------------------------------------------------------------------
\* Properties.

Quiescent == InFlight = {}

DonationIds == {donations[i].donationId : i \in 1..Len(donations)}

\* The tasks of one type created for a donation.
TasksOf(donationId, taskType) ==
    {k \in 1..Len(tasks) : /\ tasks[k].donationId = donationId
                            /\ tasks[k].taskType = taskType}

TerminalTaskStatus == {"completed", "cancelled", "failed"}

\* The request in slot s takes a step.
Steps(s) == reqs'[s] # reqs[s]

\* The request in slot s is an op request at position pc and takes its step.
StepAt(s, op, pc) == reqs[s].op = op /\ reqs[s].pc = pc /\ Steps(s)

\* A request of kind op arrives in slot s and is admitted.
Admitted(s, op) == reqs[s].pc = "idle" /\ reqs'[s].op = op

\* Only the record at index i changes, and no record is added.
OnlyChanged(old, new, i) ==
    /\ Len(new) = Len(old)
    /\ \A j \in 1..Len(old) : j # i => new[j] = old[j]

\* One record is appended, and no other changes.
OneAppended(old, new) ==
    /\ Len(new) = Len(old) + 1
    /\ \A j \in 1..Len(old) : new[j] = old[j]

\* C1: for every donation, at most one collection task and at most one
\* distribution task is ever created, whatever the interleaving of the
\* assignment requests.
C1_AtMostOneTaskPerPhase ==
    \A d \in DonationIds, ty \in TaskType : Cardinality(TasksOf(d, ty)) <= 1

\* C2: an assignCollectionTask request on a donation whose status is not
\* pendingAssignment is answered with an error (here the 404), whoever sends
\* it and whatever volunteer it names, and only a request that found the
\* donation pendingAssignment goes on to its writes; a rejected request is a
\* step that changes nothing (AssignCollectionRejected).
C2_RejectedUnlessPending ==
    \A i \in 1..Len(donations), c \in Users, v \in VolunteerIds :
        donations[i].status # "pendingAssignment"
           => AssignCollectionOutcome(c, donations[i].donationId, v)
                 \in {400, 403, 404}

C2_AdmittedOnlyPending ==
    \A s \in Slots :
        Admitted(s, "assignCollection")
           => /\ DonationIndex(reqs'[s].id) # 0
              /\ donations[DonationIndex(reqs'[s].id)].status = "pendingAssignment"
              /\ UNCHANGED <<donations, tasks, metrics>>

C2_CollectionGuard ==
    [](C2_RejectedUnlessPending) /\ [][C2_AdmittedOnlyPending]_vars

\* C2 witness: a first assignment has succeeded (the donation is
\* assignedForCollection and has its task) and a second call by the admin is
\* answered 404.
C2_Witness ==
    /\ Quiescent
    /\ \E i \in 1..Len(donations) :
          /\ donations[i].status = "assignedForCollection"
          /\ Cardinality(TasksOf(donations[i].donationId, "collection")) = 1
          /\ AssignCollectionOutcome("A1", donations[i].donationId, "V1") = 404

\* C3: an assignDistributionTask request goes on to its writes only when the
\* donation's status is collected and locationId names an organization; in
\* every other case it is answered with an error and (AssignDistributionRejected)
\* changes nothing.
C3_RejectedUnlessCollected ==
    \A d \in DonationIdInputs, c \in Users, v \in VolunteerIds, l \in LocationIds :
        (\/ DonationIndex(d) = 0
         \/ donations[DonationIndex(d)].status # "collected"
         \/ ~\E o \in Organizations : o.organizationId = LocationIdString(l))
           => AssignDistributionOutcome(c, d, v, l) \in {400, 403, 404}

C3_AdmittedOnlyCollected ==
    \A s \in Slots :
        Admitted(s, "assignDistribution")
           => /\ DonationIndex(reqs'[s].id) # 0
              /\ donations[DonationIndex(reqs'[s].id)].status = "collected"
              /\ \E o \in Organizations : /\ o.coordinates = reqs'[s].coordinates
                                          /\ o.address = reqs'[s].address
              /\ UNCHANGED <<donations, tasks, metrics>>

C3_DistributionGuard ==
    [](C3_RejectedUnlessCollected) /\ [][C3_AdmittedOnlyCollected]_vars

\* C3 witness: the collection task is under way but not completed (the
\* donation is still assignedForCollection), and the admin's
\* assignDistributionTask naming a known organization is answered 404.
C3_Witness ==
    /\ Quiescent
    /\ \E i \in 1..Len(donations) :
          /\ donations[i].status = "assignedForCollection"
          /\ AssignDistributionOutcome("A1", donations[i].donationId, "V1", 1) = 404
    /\ \E k \in 1..Len(tasks) : tasks[k].status = "enRoute"

\* C4: a donation starts pendingAssignment, its status is always one of the
\* five values, and every change of it follows one of the four edges.
StatusEdges ==
    {<<"pendingAssignment", "assignedForCollection">>,
     <<"assignedForCollection", "collected">>,
     <<"collected", "assignedForDistribution">>,
     <<"assignedForDistribution", "delivered">>}

C4_StatusFollowsEdges ==
    /\ \A i \in 1..Len(donations) :
          \/ donations'[i].status = donations[i].status
          \/ <<donations[i].status, donations'[i].status>> \in StatusEdges
    /\ \A i \in (Len(donations) + 1)..Len(donations') :
          donations'[i].status = "pendingAssignment"

C4_DonationStateMachine == [][C4_StatusFollowsEdges]_vars

\* C5: a donation never has two collection tasks, or two distribution tasks,
\* in a non-terminal status at once.
C5_SingleActiveTaskPerPhase ==
    \A d \in DonationIds, ty \in TaskType :
        Cardinality({k \in TasksOf(d, ty) :
                        tasks[k].status \notin TerminalTaskStatus}) <= 1

\* C6: while a task has an issue reported, no step of an updateTaskStatus
\* request on it changes the task, the donation or the metrics, also when the
\* request read the task before the report; and every updateTaskStatus
\* arriving meanwhile is rejected.
C6_LockedTaskUntouched ==
    \A s \in Slots :
        (/\ reqs[s].op = "updateStatus"
         /\ Steps(s)
         /\ TaskIndexBy_id(reqs[s].id) # 0
         /\ tasks[TaskIndexBy_id(reqs[s].id)].issueReported)
           => UNCHANGED <<tasks, donations, metrics>>

C6_LockedTaskRejects ==
    \A k \in 1..Len(tasks), c \in Users, st \in StatusInputs :
        tasks[k].issueReported => UpdateStatusOutcome(c, tasks[k]._id, st) # 0

C6_IssueLock == [](C6_LockedTaskRejects) /\ [][C6_LockedTaskUntouched]_vars

\* C7: the identifier under which a volunteer reported an issue on a task
\* (the one reportIssue and updateTaskStatus look the task up by) is accepted
\* by reassignTask and designates the same task there.
C7_SameTaskIdentifier ==
    \A k \in 1..Len(tasks) :
        tasks[k].issueReported
           => /\ ReassignOutcome("A1", tasks[k]._id, "V2") = 0
              /\ TaskIndexByTaskId(tasks[k]._id) = k

\* The tasksAssigned bookkeeping of an assignment, seen from the store: the
\* volunteer's record gains exactly 1, or is created with tasksAssigned = 1
\* when the volunteer has none.
TasksAssignedGainsOne(v) ==
    LET i == MetricsIndex(v) IN
      IF i = 0
      THEN /\ OneAppended(metrics, metrics')
           /\ metrics'[Len(metrics')].userId = v
           /\ metrics'[Len(metrics')].tasksAssigned = 1
      ELSE /\ OnlyChanged(metrics, metrics', i)
           /\ metrics'[i] = [metrics[i] EXCEPT
                               !.tasksAssigned = metrics[i].tasksAssigned + 1]

\* C8: a successful assignCollectionTask (requests handled one at a time) is
\* admitted on a pendingAssignment donation; it appends exactly one task with
\* taskType collection, status assigned, the donation and volunteer given and
\* the donation's pickup coordinates and address; it raises the volunteer's
\* tasksAssigned by exactly 1 (a new record starts at 1); and it sets the
\* donation's status to assignedForCollection, changing nothing else.
C8_AssignCollectionSteps ==
    \A s \in Slots :
      LET r == reqs[s]
          d == DonationIndex(r.id)
      IN
        /\ Admitted(s, "assignCollection")
             => /\ PendingDonationIndex(reqs'[s].id) # 0
                /\ reqs'[s].vol \in VolunteerIds \ {""}
                /\ UNCHANGED <<donations, tasks, metrics>>
        /\ StepAt(s, "assignCollection", "ac_create")
             => /\ OneAppended(tasks, tasks')
                /\ LET t == tasks'[Len(tasks')] IN
                     /\ t.taskType = "collection"
                     /\ t.status = "assigned"
                     /\ t.donationId = r.id
                     /\ t.volunteerId = r.vol
                     /\ t.location = donations[d].pickupLocation
                     /\ t.address = donations[d].pickupAddress
                     /\ ~t.issueReported
                /\ UNCHANGED <<donations, metrics>>
        /\ StepAt(s, "assignCollection", "ac_metrics_read")
             => UNCHANGED <<donations, tasks, metrics>>
        /\ StepAt(s, "assignCollection", "ac_metrics_write")
             => /\ TasksAssignedGainsOne(r.vol)
                /\ UNCHANGED <<donations, tasks>>
        /\ StepAt(s, "assignCollection", "ac_donation_write")
             => /\ donations[d].status = "pendingAssignment"
                /\ OnlyChanged(donations, donations', d)
                /\ donations'[d] =
                     [donations[d] EXCEPT !.status = "assignedForCollection"]
                /\ Cardinality(TasksOf(r.id, "collection")) = 1
                /\ reqs'[s] = IdleReq
                /\ UNCHANGED <<tasks, metrics>>

C8_AssignCollectionEffect == [][C8_AssignCollectionSteps]_vars

\* C8 witness: a second donation's collection has been assigned to a
\* volunteer who already had a Metrics record, whose tasksAssigned is now 2;
\* both donations are assignedForCollection, each with its own task.
C8_Witness ==
    /\ Quiescent
    /\ Len(donations) = 2
    /\ \A i \in 1..2 :
          /\ donations[i].status = "assignedForCollection"
          /\ \E k \in TasksOf(donations[i].donationId, "collection") :
                /\ tasks[k].volunteerId = "V1"
                /\ tasks[k].location = donations[i].pickupLocation
    /\ MetricsIndex("V1") # 0
    /\ metrics[MetricsIndex("V1")].tasksAssigned = 2

\* C9: a successful assignDistributionTask (requests handled one at a time)
\* is admitted on a collected donation with an existing organization; it
\* appends exactly one task with taskType distribution, status assigned and
\* the organization's coordinates and address; it raises the volunteer's
\* tasksAssigned by exactly 1; and it sets the donation's status to
\* assignedForDistribution and its dropoffLocation and dropoffAddress to the
\* same coordinates and address, changing nothing else.
C9_AssignDistributionSteps ==
    \A s \in Slots :
      LET r == reqs[s]
          d == DonationIndex(r.id)
      IN
        /\ Admitted(s, "assignDistribution")
             => /\ CollectedDonationIndex(reqs'[s].id) # 0
                /\ \E o \in Organizations :
                      /\ reqs'[s].coordinates = o.coordinates
                      /\ reqs'[s].address = o.address
                /\ UNCHANGED <<donations, tasks, metrics>>
        /\ StepAt(s, "assignDistribution", "ad_create")
             => /\ OneAppended(tasks, tasks')
                /\ LET t == tasks'[Len(tasks')] IN
                     /\ t.taskType = "distribution"
                     /\ t.status = "assigned"
                     /\ t.donationId = r.id
                     /\ t.volunteerId = r.vol
                     /\ \E o \in Organizations :
                           /\ t.location = o.coordinates
                           /\ t.address = o.address
                           /\ r.coordinates = o.coordinates
                           /\ r.address = o.address
                /\ UNCHANGED <<donations, metrics>>
        /\ StepAt(s, "assignDistribution", "ad_metrics_read")
             => UNCHANGED <<donations, tasks, metrics>>
        /\ StepAt(s, "assignDistribution", "ad_metrics_write")
             => /\ TasksAssignedGainsOne(r.vol)
                /\ UNCHANGED <<donations, tasks>>
        /\ StepAt(s, "assignDistribution", "ad_donation_write")
             => /\ donations[d].status = "collected"
                /\ OnlyChanged(donations, donations', d)
                /\ LET t == tasks[Len(tasks)] IN
                     /\ t.donationId = r.id
                     /\ t.taskType = "distribution"
                     /\ donations'[d] =
                          [donations[d] EXCEPT
                             !.status = "assignedForDistribution",
                             !.dropoffLocation = t.location,
                             !.dropoffAddress = t.address]
                /\ reqs'[s] = IdleReq
                /\ UNCHANGED <<tasks, metrics>>

C9_AssignDistributionEffect == [][C9_AssignDistributionSteps]_vars

\* C9 witness: the donation collected by V1 has been assigned for
\* distribution to V1, who also collected it, at the second organization:
\* the donation and its distribution task both carry that organization's
\* coordinates and address, and V1's tasksAssigned is 2.
C9_Witness ==
    /\ Quiescent
    /\ \E i \in 1..Len(donations) :
          /\ donations[i].status = "assignedForDistribution"
          /\ donations[i].dropoffLocation = <<50, 60>>
          /\ donations[i].dropoffAddress = "centerB"
          /\ \E k \in TasksOf(donations[i].donationId, "distribution") :
                /\ tasks[k].status = "assigned"
                /\ tasks[k].location = <<50, 60>>
                /\ tasks[k].address = "centerB"
                /\ tasks[k].volunteerId = "V1"
    /\ MetricsIndex("V1") # 0
    /\ metrics[MetricsIndex("V1")].tasksAssigned = 2

\* C10: when the owning volunteer's updateTaskStatus(completed) on an unlocked
\* collection task runs (requests handled one at a time), the task becomes
\* completed with completedAt set, the linked donation becomes collected with
\* collectedAt set and collectedByVolunteerId the volunteer, and the
\* volunteer's tasksCompleted and donationsCollected each gain exactly 1.
C10_CompleteCollectionSteps ==
    \A s \in Slots :
      LET r == reqs[s]
          k == TaskIndexBy_id(r.id)
          d == DonationIndex(r.donationId)
          m == MetricsIndex(r.vol)
          Completing(pc) == /\ StepAt(s, "updateStatus", pc)
                            /\ r.status = "completed"
                            /\ r.taskType = "collection"
      IN
        /\ (Admitted(s, "updateStatus") /\ reqs'[s].status = "completed")
             => LET t == tasks[TaskIndexBy_id(reqs'[s].id)] IN
                  /\ t.volunteerId = reqs'[s].caller
                  /\ ~t.issueReported
                  /\ reqs'[s].taskType = t.taskType
                  /\ reqs'[s].donationId = t.donationId
                  /\ UNCHANGED <<donations, tasks, metrics>>
        /\ Completing("us_task_write")
             => /\ OnlyChanged(tasks, tasks', k)
                /\ tasks'[k].status = "completed"
                /\ tasks'[k].completedAt > 0
                /\ tasks'[k] = [tasks[k] EXCEPT !.status = "completed",
                                                !.completedAt = tasks'[k].completedAt]
                /\ UNCHANGED <<donations, metrics>>
        /\ Completing("us_donation_read")
             => /\ d # 0
                /\ reqs'[s].pc = "us_donation_write"
                /\ UNCHANGED <<donations, tasks, metrics>>
        /\ Completing("us_donation_write")
             => /\ OnlyChanged(donations, donations', d)
                /\ donations'[d].status = "collected"
                /\ donations'[d].collectedAt > 0
                /\ donations'[d] =
                     [donations[d] EXCEPT
                        !.status = "collected",
                        !.collectedAt = donations'[d].collectedAt,
                        !.collectedByVolunteerId = r.caller]
                /\ UNCHANGED <<tasks, metrics>>
        /\ Completing("us_metrics_read")
             => UNCHANGED <<donations, tasks, metrics>>
        /\ Completing("us_metrics_write")
             => /\ IF m = 0
                   THEN /\ OneAppended(metrics, metrics')
                        /\ metrics'[Len(metrics')].userId = r.caller
                        /\ metrics'[Len(metrics')].tasksCompleted = 1
                        /\ metrics'[Len(metrics')].donationsCollected = 1
                   ELSE /\ OnlyChanged(metrics, metrics', m)
                        /\ metrics'[m] =
                             [metrics[m] EXCEPT
                                !.tasksCompleted = metrics[m].tasksCompleted + 1,
                                !.donationsCollected =
                                    metrics[m].donationsCollected + 1]
                /\ reqs'[s] = IdleReq
                /\ UNCHANGED <<donations, tasks>>

\* C10, the scenario: after exactly post, assign collection to V1, complete
\* (three admitted requests ending with the donation collected by V1), V1 has
\* one Metrics record with tasksCompleted = 1 and donationsCollected = 1.
C10_Scenario ==
    (/\ Quiescent
     /\ nreq = 3
     /\ Len(donations) = 1
     /\ donations[1].status = "collected"
     /\ donations[1].collectedByVolunteerId = "V1")
       => /\ donations[1].collectedAt > 0
          /\ Len(tasks) = 1
          /\ tasks[1].status = "completed"
          /\ tasks[1].completedAt > 0
          /\ Cardinality({i \in 1..Len(metrics) : metrics[i].userId = "V1"}) = 1
          /\ metrics[MetricsIndex("V1")].tasksCompleted = 1
          /\ metrics[MetricsIndex("V1")].donationsCollected = 1
          /\ metrics[MetricsIndex("V1")].tasksAssigned = 1

C10_CompleteCollectionEffect ==
    [](C10_Scenario) /\ [][C10_CompleteCollectionSteps]_vars

\* C10 witness: the scenario's end state.
C10_Witness ==
    /\ Quiescent
    /\ nreq = 3
    /\ Len(donations) = 1
    /\ donations[1].status = "collected"
    /\ donations[1].collectedByVolunteerId = "V1"
    /\ donations[1].collectedAt > 0
    /\ MetricsIndex("V1") # 0
    /\ metrics[MetricsIndex("V1")].tasksCompleted = 1
    /\ metrics[MetricsIndex("V1")].donationsCollected = 1

\* C11: the completion of a distribution task by its volunteer (requests
\* handled one at a time) sets the task completed, sets the donation
\* delivered with deliveredAt set and distributionVolunteerId the volunteer,
\* and adds 1 to the volunteer's tasksCompleted and donationsDelivered, or
\* creates the record with both at 1 when there is none.
C11_CompleteDistributionSteps ==
    \A s \in Slots :
      LET r == reqs[s]
          k == TaskIndexBy_id(r.id)
          d == DonationIndex(r.donationId)
          m == MetricsIndex(r.vol)
          Completing(pc) == /\ StepAt(s, "updateStatus", pc)
                            /\ r.status = "completed"
                            /\ r.taskType = "distribution"
      IN
        /\ Completing("us_task_write")
             => /\ OnlyChanged(tasks, tasks', k)
                /\ tasks'[k].completedAt > 0
                /\ tasks'[k] = [tasks[k] EXCEPT !.status = "completed",
                                                !.completedAt = tasks'[k].completedAt]
                /\ UNCHANGED <<donations, metrics>>
        /\ Completing("us_donation_read")
             => /\ d # 0
                /\ reqs'[s].pc = "us_donation_write"
                /\ UNCHANGED <<donations, tasks, metrics>>
        /\ Completing("us_donation_write")
             => /\ OnlyChanged(donations, donations', d)
                /\ donations'[d].deliveredAt > 0
                /\ donations'[d] =
                     [donations[d] EXCEPT
                        !.status = "delivered",
                        !.deliveredAt = donations'[d].deliveredAt,
                        !.distributionVolunteerId = r.caller]
                /\ UNCHANGED <<tasks, metrics>>
        /\ Completing("us_metrics_read")
             => UNCHANGED <<donations, tasks, metrics>>
        /\ Completing("us_metrics_write")
             => /\ IF m = 0
                   THEN /\ OneAppended(metrics, metrics')
                        /\ metrics'[Len(metrics')].userId = r.caller
                        /\ metrics'[Len(metrics')].tasksCompleted = 1
                        /\ metrics'[Len(metrics')].donationsDelivered = 1
                        /\ metrics'[Len(metrics')].donationsCollected = 0
                   ELSE /\ OnlyChanged(metrics, metrics', m)
                        /\ metrics'[m] =
                             [metrics[m] EXCEPT
                                !.tasksCompleted = metrics[m].tasksCompleted + 1,
                                !.donationsDelivered =
                                    metrics[m].donationsDelivered + 1]
                /\ reqs'[s] = IdleReq
                /\ UNCHANGED <<donations, tasks>>

\* The donation of a one-donation run has been collected and delivered by V1.
RoundTripByV1 ==
    /\ Quiescent
    /\ Len(donations) = 1
    /\ Len(tasks) = 2
    /\ donations[1].status = "delivered"
    /\ donations[1].collectedByVolunteerId = "V1"
    /\ donations[1].distributionVolunteerId = "V1"

V1Counts(completed, collected, delivered) ==
    /\ Cardinality({i \in 1..Len(metrics) : metrics[i].userId = "V1"}) = 1
    /\ metrics[MetricsIndex("V1")].tasksCompleted = completed
    /\ metrics[MetricsIndex("V1")].donationsCollected = collected
    /\ metrics[MetricsIndex("V1")].donationsDelivered = delivered

\* C11, half way: after post, assign collection to V1, complete (three
\* admitted requests) V1 has tasksCompleted 1 and donationsCollected 1.
C11_HalfWay ==
    (/\ Quiescent
     /\ nreq = 3
     /\ Len(donations) = 1
     /\ donations[1].status = "collected"
     /\ donations[1].collectedByVolunteerId = "V1")
       => V1Counts(1, 1, 0)

\* C11, the scenario: post, assign collection to V1, complete, assign
\* distribution to V1, complete (the only five admitted requests that end
\* this way) leaves the donation delivered with deliveredAt set and V1 with
\* tasksCompleted 2, donationsCollected 1, donationsDelivered 1.
C11_RoundTrip ==
    (RoundTripByV1 /\ nreq = 5)
       => /\ donations[1].deliveredAt > 0
          /\ V1Counts(2, 1, 1)

\* C11, V1 without a Metrics record before the first completion: the
\* collection was assigned to V2 and reassigned to V1 (six admitted requests,
\* V2 keeps the tasksAssigned of the assignment); the counts are the same.
C11_RoundTripNoRecord ==
    (/\ RoundTripByV1
     /\ nreq = 6
     /\ MetricsIndex("V2") # 0
     /\ metrics[MetricsIndex("V2")].tasksAssigned = 1
     /\ MetricsIndex("V1") # 0
     /\ metrics[MetricsIndex("V1")].tasksAssigned = 1)
       => /\ donations[1].deliveredAt > 0
          /\ V1Counts(2, 1, 1)

C11_FullRoundTrip ==
    /\ [](C11_HalfWay)
    /\ [](C11_RoundTrip)
    /\ [](C11_RoundTripNoRecord)
    /\ [][C11_CompleteDistributionSteps]_vars

\* C11 witness: the end of the round trip in which V1 had no Metrics record
\* before the first completion.
C11_Witness ==
    /\ RoundTripByV1
    /\ nreq = 6
    /\ MetricsIndex("V2") # 0
    /\ metrics[MetricsIndex("V2")].tasksAssigned = 1
    /\ V1Counts(2, 1, 1)
    /\ metrics[MetricsIndex("V1")].tasksAssigned = 1
    /\ metrics[MetricsIndex("V1")].metricsId > tasks[1]._id

\* C12: a reassignTask that finds its task sets volunteerId to the new
\* volunteer, status to assigned, issueReported to false, issueNotes to empty
\* and assignedAt to a later time, and changes no other field of the task, no
\* other task, no donation and no Metrics record.
C12_ReassignSteps ==
    \A s \in Slots, c \in Users, t \in TaskIdInputs, v \in VolunteerIds :
        (tasks' # tasks /\ ReassignTask(s, c, t, v))
           => LET i == TaskIndexByTaskId(t) IN
                /\ i # 0
                /\ OnlyChanged(tasks, tasks', i)
                /\ tasks'[i].volunteerId = v
                /\ tasks'[i].status = "assigned"
                /\ ~tasks'[i].issueReported
                /\ tasks'[i].issueNotes = ""
                /\ tasks'[i].assignedAt > tasks[i].assignedAt
                /\ tasks'[i] = [tasks[i] EXCEPT
                                  !.volunteerId = v,
                                  !.status = "assigned",
                                  !.issueReported = FALSE,
                                  !.issueNotes = "",
                                  !.assignedAt = tasks'[i].assignedAt]
                /\ UNCHANGED <<donations, metrics>>

C12_ReassignEffect == [][C12_ReassignSteps]_vars

\* C12 witness: V1's collection task has been reassigned to V2 by the fourth
\* admitted request: it is assigned and unlocked with the new assignedAt, the
\* donation is still assignedForCollection and the Metrics are those of the
\* assignment (V1 has 1, V2 has no record).
C12_Witness ==
    \E k \in 1..Len(tasks) :
        /\ tasks[k].volunteerId = "V2"
        /\ tasks[k].status = "assigned"
        /\ ~tasks[k].issueReported
        /\ tasks[k].issueNotes = ""
        /\ tasks[k].assignedAt = 4
        /\ donations[DonationIndex(tasks[k].donationId)].status
              = "assignedForCollection"
        /\ MetricsIndex("V2") = 0
        /\ MetricsIndex("V1") # 0
        /\ metrics[MetricsIndex("V1")].tasksAssigned = 1

\* C13: a reportIssue request is answered with an error, and changes
\* nothing, when its notes are empty, the task is unknown or the task is not
\* the caller's; a request that passed these checks sets issueReported,
\* issueNotes and status = pending_review on that task and changes no other
\* field, no other task, no donation and no Metrics record.
C13_RejectedUnlessOwnerWithNotes ==
    \A c \in Users, t \in TaskIdInputs, n \in IssueNotes :
        (\/ n = ""
         \/ ~isVolunteer(c)
         \/ TaskIndexBy_id(t) = 0
         \/ tasks[TaskIndexBy_id(t)].volunteerId # c)
           => ReportIssueOutcome(c, t, n) \in {400, 403}

C13_ReportIssueSteps ==
    \A s \in Slots :
        /\ Admitted(s, "reportIssue")
             => LET k == TaskIndexBy_id(reqs'[s].id) IN
                  /\ k # 0
                  /\ tasks[k].volunteerId = reqs'[s].caller
                  /\ isVolunteer(reqs'[s].caller)
                  /\ reqs'[s].notes # ""
                  /\ UNCHANGED <<donations, tasks, metrics>>
        /\ StepAt(s, "reportIssue", "ri_write")
             => LET k == TaskIndexBy_id(reqs[s].id) IN
                  /\ OnlyChanged(tasks, tasks', k)
                  /\ tasks'[k] = [tasks[k] EXCEPT
                                    !.issueReported = TRUE,
                                    !.issueNotes = reqs[s].notes,
                                    !.status = "pending_review"]
                  /\ reqs'[s] = IdleReq
                  /\ UNCHANGED <<donations, metrics>>

C13_ReportIssueEffect ==
    [](C13_RejectedUnlessOwnerWithNotes) /\ [][C13_ReportIssueSteps]_vars

\* C13 witness: V1 has reported an issue on the collection task: the task is
\* locked with the notes and status pending_review, the donation is still
\* assignedForCollection, and V2's report on the same task is answered 403.
C13_Witness ==
    /\ Quiescent
    /\ \E k \in 1..Len(tasks) :
          /\ tasks[k].volunteerId = "V1"
          /\ tasks[k].issueReported
          /\ tasks[k].issueNotes = "wrong address"
          /\ tasks[k].status = "pending_review"
          /\ donations[DonationIndex(tasks[k].donationId)].status
                = "assignedForCollection"
          /\ ReportIssueOutcome("V2", tasks[k]._id, "wrong address") = 403
          /\ ReportIssueOutcome("V1", tasks[k]._id, "") = 400

\* C14: an updateTaskStatus request is rejected when the task does not exist,
\* is not the caller's, or the new status is not one of enRoute, completed,
\* cancelled, failed; and no step of an updateTaskStatus request writes
\* anything while the task's volunteer is not the caller, also when a
\* reassignTask came between the request's read of the task and its writes.
C14_RejectedUnlessOwnedAndValid ==
    \A c \in Users, t \in TaskIdInputs, st \in StatusInputs :
        (\/ TaskIndexBy_id(t) = 0
         \/ tasks[TaskIndexBy_id(t)].volunteerId # c
         \/ st \notin AllowedStatusUpdates)
           => UpdateStatusOutcome(c, t, st) \in {400, 403}

C14_OwnerAtEveryWrite ==
    \A s \in Slots :
        (/\ reqs[s].op = "updateStatus"
         /\ Steps(s)
         /\ TaskIndexBy_id(reqs[s].id) # 0
         /\ tasks[TaskIndexBy_id(reqs[s].id)].volunteerId # reqs[s].caller)
           => UNCHANGED <<tasks, donations, metrics>>

C14_OwnershipGuard ==
    [](C14_RejectedUnlessOwnedAndValid) /\ [][C14_OwnerAtEveryWrite]_vars

\* C15: an updateTaskStatus to cancelled or failed changes only the status of
\* its task; to enRoute it changes the status and startedAt of its task; in
\* both cases no donation and no Metrics record changes, and the request ends
\* after its read of the donation.
C15_NonCompletingSteps ==
    \A s \in Slots :
      LET r == reqs[s]
          k == TaskIndexBy_id(r.id)
          Updating(pc) == /\ StepAt(s, "updateStatus", pc)
                          /\ r.status \in {"cancelled", "failed", "enRoute"}
      IN
        /\ Updating("us_task_write")
             => /\ OnlyChanged(tasks, tasks', k)
                /\ tasks'[k].status = r.status
                /\ IF r.status = "enRoute"
                   THEN /\ tasks'[k].startedAt > 0
                        /\ tasks'[k] = [tasks[k] EXCEPT
                                          !.status = "enRoute",
                                          !.startedAt = tasks'[k].startedAt]
                   ELSE tasks'[k] = [tasks[k] EXCEPT !.status = r.status]
                /\ reqs'[s].pc = "us_donation_read"
                /\ UNCHANGED <<donations, metrics>>
        /\ Updating("us_donation_read")
             => /\ reqs'[s] = IdleReq
                /\ UNCHANGED <<donations, tasks, metrics>>
        /\ (reqs[s].op = "updateStatus"
              /\ r.status \in {"cancelled", "failed", "enRoute"})
             => r.pc \in {"us_task_write", "us_donation_read"}

C15_NonCompletingEffect == [][C15_NonCompletingSteps]_vars

\* C15 witness: V1 has set the collection task to failed: the task has no
\* startedAt or completedAt, the donation is still assignedForCollection with
\* no collection recorded, and V1's Metrics are those of the assignment.
C15_Witness ==
    /\ Quiescent
    /\ \E k \in 1..Len(tasks) :
          /\ tasks[k].status = "failed"
          /\ tasks[k].volunteerId = "V1"
          /\ tasks[k].startedAt = 0
          /\ tasks[k].completedAt = 0
          /\ LET d == donations[DonationIndex(tasks[k].donationId)] IN
               /\ d.status = "assignedForCollection"
               /\ d.collectedAt = 0
               /\ d.collectedByVolunteerId = ""
    /\ MetricsIndex("V1") # 0
    /\ metrics[MetricsIndex("V1")].tasksAssigned = 1
    /\ metrics[MetricsIndex("V1")].tasksCompleted = 0

\* The counters of a Metrics record.
MetricsCounters ==
    {"tasksAssigned", "tasksCompleted", "donationsCollected",
     "donationsDelivered", "totalDonationsPosted", "foodItemsCollected"}

\* C16: no counter of any Metrics record ever decreases, whatever the
\* interleaving of the requests that read it and write the read value plus
\* their increment.
C16_NoCounterDecreases ==
    \A i \in 1..Len(metrics), f \in MetricsCounters :
        metrics'[i][f] >= metrics[i][f]

C16_CountersNeverDecrease == [][C16_NoCounterDecreases]_vars

\* C17: a failure of the Metrics read, create or update in POST /post, the two
\* assignment routes or the status route never reaches the failure response
\* and undoes nothing: the request leaves the Metrics block at the same place
\* as after a successful Metrics write (the donation write of the assignment
\* routes, the success response of the other two) with donations and tasks
\* untouched, the lifecycle writes made before the block are in place while
\* the block runs, and the donation write after it advances the donation.
C17_LeavesMetricsBlock ==
    \A s \in Slots :
        (reqs[s].pc \in MetricsPcs /\ Steps(s) /\ reqs'[s].pc \notin MetricsPcs)
           => /\ UNCHANGED <<donations, tasks>>
              /\ reqs[s].op = "assignCollection"
                    => reqs'[s] = [reqs[s] EXCEPT !.pc = "ac_donation_write"]
              /\ reqs[s].op = "assignDistribution"
                    => reqs'[s] = [reqs[s] EXCEPT !.pc = "ad_donation_write"]
              /\ reqs[s].op \in {"post", "updateStatus"} => reqs'[s] = IdleReq

C17_PrimaryEffectInPlace ==
    \A s \in Slots :
        reqs[s].pc \in MetricsPcs
           => LET r == reqs[s] IN
              /\ r.op = "post"
                    => /\ Len(donations) > 0
                       /\ donations[Len(donations)].donorId = r.caller
                       /\ donations[Len(donations)].status = "pendingAssignment"
              /\ r.op = "assignCollection"
                    => \E k \in TasksOf(r.id, "collection") :
                          tasks[k].volunteerId = r.vol /\ tasks[k].status = "assigned"
              /\ r.op = "assignDistribution"
                    => \E k \in TasksOf(r.id, "distribution") :
                          tasks[k].volunteerId = r.vol /\ tasks[k].status = "assigned"
              /\ r.op = "updateStatus"
                    => /\ TaskBy_id(r.id).status = "completed"
                       /\ DonationOf(r.donationId).status =
                             IF r.taskType = "collection" THEN "collected"
                             ELSE "delivered"

C17_DonationAdvances ==
    \A s \in Slots :
        /\ (StepAt(s, "assignCollection", "ac_donation_write")
              /\ reqs'[s].pc # "catch")
              => /\ reqs'[s] = IdleReq
                 /\ donations'[DonationIndex(reqs[s].id)].status
                       = "assignedForCollection"
        /\ (StepAt(s, "assignDistribution", "ad_donation_write")
              /\ reqs'[s].pc # "catch")
              => /\ reqs'[s] = IdleReq
                 /\ donations'[DonationIndex(reqs[s].id)].status
                       = "assignedForDistribution"

C17_MetricsFailureHarmless ==
    /\ [](C17_PrimaryEffectInPlace)
    /\ [][C17_LeavesMetricsBlock /\ C17_DonationAdvances]_vars

\* C17 witness: a collection assignment has been answered with the donation
\* assignedForCollection and its task created, and the volunteer has no
\* Metrics record: the Metrics block of that request failed.
C17_Witness ==
    /\ Quiescent
    /\ \E i \in 1..Len(donations) :
          /\ donations[i].status = "assignedForCollection"
          /\ \E k \in TasksOf(donations[i].donationId, "collection") :
                /\ tasks[k].status = "assigned"
                /\ MetricsIndex(tasks[k].volunteerId) = 0

\* C18: the task write and the donation status write of an assignment or of
\* a completion are applied together or not at all: whenever a request is
\* about to answer with its failure response, it has not created a task for
\* a donation it left unadvanced, nor completed a task whose donation it left
\* unadvanced.
C18_WritesPairedOnFailure ==
    \A s \in Slots :
        reqs[s].pc = "catch"
           => LET r == reqs[s] IN
              /\ r.op = "assignCollection"
                    => ~ /\ \E k \in TasksOf(r.id, "collection") :
                               tasks[k].volunteerId = r.vol
                         /\ DonationOf(r.id).status = "pendingAssignment"
              /\ r.op = "assignDistribution"
                    => ~ /\ \E k \in TasksOf(r.id, "distribution") :
                               tasks[k].volunteerId = r.vol
                         /\ DonationOf(r.id).status = "collected"
              /\ (r.op = "updateStatus" /\ r.status = "completed")
                    => ~ /\ TaskBy_id(r.id).status = "completed"
                         /\ DonationOf(r.donationId).status
                               \notin {"collected", "delivered"}

\* The operations of the task assignment engine that may write a donation's
\* status.
EngineOps == {"assignCollection", "assignDistribution", "updateStatus"}

\* C19: a donation's status is written only by the assignment routes and by
\* the status route on completion: in every step that changes the status of a
\* donation, in the server's collection or in the client's Firestore
\* collection, a request of one of these three operations takes its step, and
\* a new donation starts as pendingAssignment.
C19_StatusChangesOnlyInEngineSteps ==
    LET EngineStep == \E s \in Slots : reqs[s].op \in EngineOps /\ Steps(s)
    IN /\ \A i \in 1..Len(donations) :
             donations'[i].status # donations[i].status => EngineStep
       /\ \A i \in 1..Len(firestore) :
             firestore'[i].status # firestore[i].status => EngineStep
       /\ \A i \in (Len(firestore) + 1)..Len(firestore') :
             firestore'[i].status = "pendingAssignment"

C19_StatusWrittenOnlyByEngine == [][C19_StatusChangesOnlyInEngineSteps]_vars

\* C20: the two assignment routes and the reassignment take effect only for
\* a caller whose role is Admin, the status update and the issue report only
\* for a caller whose role is Volunteer. A call by anyone else is answered
\* 403 whatever its other inputs, which is a step that changes nothing; every
\* request that is past its checks carries a caller of the required role; and
\* a reassignment that changes a task is made by an Admin.
C20_DeniedWithoutRole ==
    \A c \in Users :
        /\ RoleOf(c) # "Admin"
              => /\ \A d \in DonationIdInputs, v \in VolunteerIds :
                       /\ AssignCollectionOutcome(c, d, v) = 403
                       /\ \A l \in LocationIds :
                             AssignDistributionOutcome(c, d, v, l) = 403
                 /\ \A t \in TaskIdInputs, v \in VolunteerIds :
                       ReassignOutcome(c, t, v) = 403
        /\ RoleOf(c) # "Volunteer"
              => \A t \in TaskIdInputs :
                    /\ \A st \in StatusInputs : UpdateStatusOutcome(c, t, st) = 403
                    /\ \A n \in IssueNotes : ReportIssueOutcome(c, t, n) = 403

C20_InFlightHasRole ==
    \A s \in Slots :
        /\ reqs[s].op \in {"assignCollection", "assignDistribution"}
              => RoleOf(reqs[s].caller) = "Admin"
        /\ reqs[s].op \in {"updateStatus", "reportIssue"}
              => RoleOf(reqs[s].caller) = "Volunteer"

C20_WritesHaveRole ==
    /\ \A s \in Slots, c \in Users, t \in TaskIdInputs, v \in VolunteerIds :
          (tasks' # tasks /\ ReassignTask(s, c, t, v)) => RoleOf(c) = "Admin"
    /\ <<donations, tasks, metrics>>' # <<donations, tasks, metrics>>
          => \/ \E s \in Slots : Steps(s) /\ reqs[s].op # "none"
             \/ \E s \in Slots : Admitted(s, "post")
             \/ \E s \in Slots, c \in Users, t \in TaskIdInputs, v \in VolunteerIds :
                   RoleOf(c) = "Admin" /\ ReassignTask(s, c, t, v)

C20_RoleGating ==
    /\ [](C20_DeniedWithoutRole /\ C20_InFlightHasRole)
    /\ [][C20_WritesHaveRole]_vars

\* C20 witness: the admin's collection assignment has taken effect (the
\* donation is assignedForCollection, its task belongs to a volunteer), and on
\* that task the volunteer's status update would be accepted while the same
\* call by the admin or the donor is answered 403, and the admin's
\* reassignment would be accepted while the volunteer's is answered 403.
C20_Witness ==
    /\ Quiescent
    /\ \E k \in 1..Len(tasks) :
          /\ tasks[k].volunteerId = "V1"
          /\ DonationIndex(tasks[k].donationId) # 0
          /\ DonationOf(tasks[k].donationId).status = "assignedForCollection"
          /\ UpdateStatusOutcome("V1", tasks[k]._id, "completed") = 0
          /\ UpdateStatusOutcome("A1", tasks[k]._id, "completed") = 403
          /\ UpdateStatusOutcome("D1", tasks[k]._id, "completed") = 403
          /\ \E t \in TaskIdInputs :
                /\ ReassignOutcome("A1", t, "V2") = 0
                /\ ReassignOutcome("V1", t, "V2") = 403

\* C21: an assignment or reassignment that names a volunteer id no volunteer
\* has is refused and writes nothing: every task belongs to an existing
\* volunteer and every Volunteer Metrics record is that of an existing
\* volunteer.
C21_NoUnknownVolunteer ==
    /\ \A k \in 1..Len(tasks) : tasks[k].volunteerId \in ExistingVolunteers
    /\ \A i \in 1..Len(metrics) :
          metrics[i].userType = "Volunteer"
             => metrics[i].userId \in ExistingVolunteers

\* C22: the location coordinates and the address a task is created with never
\* change: no step removes a task or alters the location or address of a
\* stored task, whatever status updates, issue reports, reassignments and
\* later assignments (with their writes of the donation's dropoff fields)
\* follow.
C22_LocationKept ==
    /\ Len(tasks') >= Len(tasks)
    /\ \A k \in 1..Len(tasks) :
          /\ tasks'[k].location = tasks[k].location
          /\ tasks'[k].address = tasks[k].address

C22_TaskLocationImmutable == [][C22_LocationKept]_vars

\* C22 witness: the collection task has been completed, the donation has since
\* received its dropoff fields from a distribution assignment, and the
\* collection task still carries the donation's pickup location and address.
C22_Witness ==
    /\ Quiescent
    /\ \E i \in 1..Len(donations) :
          /\ donations[i].status = "assignedForDistribution"
          /\ donations[i].dropoffAddress # ""
          /\ \E k \in TasksOf(donations[i].donationId, "collection") :
                /\ tasks[k].status = "completed"
                /\ tasks[k].location = donations[i].pickupLocation
                /\ tasks[k].address = donations[i].pickupAddress
                /\ tasks[k].address # donations[i].dropoffAddress

\* C23: getVolunteers given a pair of pickup coordinates returns the same
\* volunteers, those with home coordinates first in non-decreasing distance to
\* the pickup point, and every volunteer lacking home coordinates (no
\* coordinates, or an empty coordinates list) after all of them.
C23_RankedByProximity ==
    (ranking.done /\ Len(ranking.pickupCoords) = 2)
       => LET r == ranking.result
              vs == ranking.volunteers
              pc == ranking.pickupCoords
              HasCoordinates(v) == /\ v.homeLocation.present
                                   /\ Len(v.homeLocation.coordinates) = 2
              Distance(v) == 111 * AbsDiff(pc[2], v.homeLocation.coordinates[2])
          IN /\ Len(r) = Len(vs)
             /\ \A i \in 1..Len(vs) :
                   \E j \in 1..Len(r) : /\ r[j].uid = vs[i].uid
                                        /\ r[j].homeLocation = vs[i].homeLocation
             /\ \A i, j \in 1..Len(r) :
                   (i < j /\ HasCoordinates(r[j])) => HasCoordinates(r[i])
             /\ \A i, j \in 1..Len(r) :
                   (i < j /\ HasCoordinates(r[i]) /\ HasCoordinates(r[j]))
                      => Distance(r[i]) <= Distance(r[j])

\* C24: there is at most one Metrics record per user in every reachable state,
\* also when requests that find no record for the user overlap.
C24_OneMetricsPerUser ==
    \A i, j \in 1..Len(metrics) :
        metrics[i].userId = metrics[j].userId => i = j

\* C25: completed, cancelled and failed are terminal for a task as far as the
\* volunteer is concerned: neither the task write of a status update nor the
\* write of an issue report changes the status of a task that is completed,
\* cancelled or failed, and a status update moves a task that is not terminal
\* only to enRoute, completed, cancelled or failed, never back to assigned.
C25_VolunteerSteps ==
    \A s \in Slots, k \in 1..Len(tasks) :
        /\ ((StepAt(s, "updateStatus", "us_task_write")
               \/ StepAt(s, "reportIssue", "ri_write"))
              /\ tasks[k].status \in TerminalTaskStatus)
              => tasks'[k].status = tasks[k].status
        /\ (StepAt(s, "updateStatus", "us_task_write")
              /\ tasks'[k].status # tasks[k].status)
              => tasks'[k].status \in AllowedStatusUpdates

C25_TerminalStatuses == [][C25_VolunteerSteps]_vars

\* C26: the status of every stored task is one of the values of the TaskStatus
\* list of the task model.
C26_StatusInTaskStatus ==
    \A k \in 1..Len(tasks) : tasks[k].status \in TaskStatus

\* C27: with no request in flight a donation's phase agrees with its tasks: a
\* donation that is collected, assignedForDistribution or delivered has a
\* completed collection task, and a delivered donation has a completed
\* distribution task.
C27_PhaseAgreesWithTasks ==
    Quiescent
       => \A i \in 1..Len(donations) :
             /\ donations[i].status
                   \in {"collected", "assignedForDistribution", "delivered"}
                   => \E k \in TasksOf(donations[i].donationId, "collection") :
                         tasks[k].status = "completed"
             /\ donations[i].status = "delivered"
                   => \E k \in TasksOf(donations[i].donationId, "distribution") :
                         tasks[k].status = "completed"

\* C28: for every task in every reachable state, issueReported is true
\* exactly when the status is pending_review, whatever the interleaving of
\* issue reports, status updates and reassignments.
C28_IssueFlagMatchesStatus ==
    \A k \in 1..Len(tasks) :
        tasks[k].issueReported <=> tasks[k].status = "pending_review"

\* C29: with no request in flight, every Metrics record has tasksCompleted
\* equal to donationsCollected + donationsDelivered, also after a collection
\* and a distribution completed by the same volunteer were handled at the
\* same time.
C29_CompletedIsCollectedPlusDelivered ==
    Quiescent
       => \A i \in 1..Len(metrics) :
             metrics[i].tasksCompleted
                = metrics[i].donationsCollected + metrics[i].donationsDelivered

====
